---- MODULE Spec2Model ----
(***************************************************************************)
(* MangaGenerator: the multi-engine generation dispatchers.                *)
(*                                                                         *)
(* The repository holds several dispatcher implementations:                *)
(*   - the complete AI system (AI_ENGINES; generateText, generateImage,    *)
(*     generateVoice with failover over an ordered engine list),           *)
(*   - routes/ai-engines.ts (TEXT_ENGINES / IMAGE_ENGINES; a selected      *)
(*     engine and then the fallback engines),                              *)
(*   - the earlier complete AI system (one selected engine, no failover),  *)
(*   - routes/image-generation.ts (POST /api/image/generate).              *)
(* One call is served at a time; every await on a provider is one step.    *)
(***************************************************************************)
EXTENDS Integers, Sequences, FiniteSets, TLC

VARIABLES
    env,            \* names of the credentials present in process.env
    fn,             \* the function serving the current call ("" when idle)
    pc,             \* "idle" | "trying" | "done" | "failed"
    params,         \* the call's parameters: [engine, model, prompt,
                    \*   characterName, isCharacterFocused]
    enhancedPrompt, \* the prompt generateImage sends to the providers
    orderedEngines, \* the candidate list of the current call
    idx,            \* position of the for loop in the candidate list
    lastError,      \* the message of the error caught last ("" for null)
    attempted,      \* engine ids whose loop body was entered, in order
    fetches,        \* the requests sent: <<[engine, model, prompt]>>, in order
    lastRes,        \* the provider response received last
    result,         \* the value returned to the caller
    error,          \* the message of the error thrown to the caller
    characterProfiles, \* the character consistency storage: name -> profile
    clock,          \* Date.now()
    imageCalls,     \* the generateImage calls of concurrent requests, in the
                    \*   order they started: <<[characterName, isCharacterFocused,
                    \*   prompt, enhancedPrompt, orderedEngines, idx, pc]>>
    creditBalances, \* the credit ledger (routes/payments.ts): userId -> balance
    creditResponse, \* what the credit route called last sent
    \* the page of the client (pages/manga-generator.tsx)
    apiKeyConfigured,   \* useState: the server reported a configured engine
    script,             \* useState: the manga script, JNull for null
    images,             \* useState: panel id -> image URL
    status,             \* useState: the status line
    isGeneratingScript, \* useState
    isGeneratingImages, \* useState
    generatingPanels,   \* useState: the panel ids being generated
    toasts,             \* the toasts raised by the handler that ran last
    handler,            \* the handler awaiting an answer ("" when none)
    allPanels,          \* handleGenerateAllImages: its allPanels
    capturedImages,     \* handleGenerateAllImages: the images of its render
    newImages,          \* handleGenerateAllImages: its newImages
    panelIdx,           \* handleGenerateAllImages: position of the for loop
    rawResponse,        \* generateMangaScript: the content of the chat answer
    requests,           \* the requests the handler sent: <<[panel, prompt]>>
    \* POST /api/image/generate-batch (routes/image-generation.ts)
    batchPc,            \* "idle" | "awaiting" | "delay" | "done"
    prompts,            \* req.body.prompts
    batchSize,          \* req.body.batchSize, 2 when absent
    loopI,              \* the i of the for loop
    batch,              \* the group being generated: prompts.slice(i, i + batchSize)
    inFlight,           \* positions in batch whose generateImage call is not settled
    batchResults,       \* position in batch -> what its promise resolved to
    results,            \* the results pushed so far
    generateCalls,      \* the generateImage calls started for the request, in order
    response,           \* what res.json sent: [status, results, total, successful, error]
    \* the page of the client: the state and the handlers beside generate-all
    illustratorPrompts, \* useState: panel id -> illustrator prompt
    useIllustratorPass, \* useState: settings.useIllustratorPass
    promptsRequest,     \* handleBuildIllustratorPrompts awaiting: [inFlight, panels]
    panelCalls,         \* handleGeneratePanelImage calls awaiting: panel id -> how many
    loadingProject      \* handleLoadProject awaits loadProject

callVars == <<fn, pc, params, enhancedPrompt, orderedEngines, idx, lastError,
              attempted, fetches, lastRes, result, error>>
cacheVars == <<characterProfiles, clock, imageCalls, creditBalances, creditResponse>>
clientVars == <<apiKeyConfigured, script, images, status, isGeneratingScript,
                isGeneratingImages, generatingPanels, toasts, handler, allPanels,
                capturedImages, newImages, panelIdx, rawResponse, requests>>
batchVars == <<batchPc, prompts, batchSize, loopI, batch, inFlight, batchResults,
               results, generateCalls, response>>
pageVars == <<illustratorPrompts, useIllustratorPass, promptsRequest, panelCalls,
              loadingProject>>
vars == <<env, callVars, cacheVars, clientVars, batchVars, pageVars>>

----------------------------------------------------------------------------
(* The credit ledger: the state of routes/payments.ts at the server's start *)

NoCreditResponse ==
    [route |-> "", userId |-> "", type |-> "", cost |-> 0, canAfford |-> FALSE,
     success |-> FALSE, credits |-> 0, deducted |-> 0]

LedgerInit ==
    /\ creditBalances = <<>>
    /\ creditResponse = NoCreditResponse

----------------------------------------------------------------------------
(* Sequence helpers                                                        *)

Range(s) == {s[i] : i \in DOMAIN s}

\* Array.prototype.filter
RECURSIVE Filter(_, _)
Filter(s, keep) ==
    IF s = <<>> THEN <<>>
    ELSE IF Head(s) \in keep THEN <<Head(s)>> \o Filter(Tail(s), keep)
         ELSE Filter(Tail(s), keep)

\* the ids of a registry section, in declaration order (Object.entries)
Ids(section) == [i \in DOMAIN section |-> section[i].id]

\* the entry of a registry section with the given id
Entry(section, id) == CHOOSE e \in Range(section) : e.id = id

----------------------------------------------------------------------------
(* Credentials and provider responses                                      *)

KeyNames == {"OPENAI_API_KEY", "OPENAI_API_NIN", "OPENAI_API_SYTH",
             "HF_API_KEY", "PERPLEXITY_API_KEY", "ELEVENLABS_API_KEY"}

\* A response body field: absent (undefined), blank, or a payload.
Missing == [has |-> FALSE, text |-> ""]
Bodies == {Missing, [has |-> TRUE, text |-> " "], [has |-> TRUE, text |-> "payload"]}

\* the error body of an inference provider whose model is being loaded
Loading == [has |-> TRUE, text |-> "Model is currently loading"]

\* errorData.error?.includes('loading')
SaysLoading(body) == body = Loading

\* What a fetch can produce: a transport failure (fetch rejects), or an HTTP
\* response with a status and a body.
TransportFailure == [transport |-> TRUE, status |-> 0, body |-> Missing]
Responses ==
    {TransportFailure}
    \cup {[transport |-> FALSE, status |-> s, body |-> Missing] : s \in {500, 503}}
    \cup {[transport |-> FALSE, status |-> 503, body |-> Loading]}
    \cup {[transport |-> FALSE, status |-> 200, body |-> b] : b \in Bodies}

NoResponse == [transport |-> FALSE, status |-> 0, body |-> Missing]

\* res.ok
Ok(res) == ~res.transport /\ res.status = 200

\* String.prototype.trim on the modelled strings
Trim(s) == IF s = " " THEN "" ELSE s

\* x || "" for an optional string field
OrEmpty(body) == IF body.has THEN body.text ELSE ""

\* Buffer.from(arrayBuffer).toString('base64') on the modelled bodies
Base64(body) ==
    IF ~body.has \/ body.text = "" THEN ""
    ELSE IF body.text = " " THEN "IA=="
    ELSE "cGF5bG9hZA=="

\* the message of the TypeError a rejected fetch throws
FetchFailed == "fetch failed"

NoResult == [payload |-> "", engine |-> "", model |-> ""]

----------------------------------------------------------------------------
(* The complete AI system: registry                                        *)

\* AI_ENGINES: per modality, the engines in declaration order.  key names the
\* credential whose presence makes the engine available.
AI_ENGINES ==
    [text |-> <<
        [id |-> "openai_primary", name |-> "OpenAI Primary", key |-> "OPENAI_API_KEY",
         models |-> <<"gpt-4o", "gpt-4o-mini", "gpt-3.5-turbo">>],
        [id |-> "openai_nin", name |-> "OpenAI Nin", key |-> "OPENAI_API_NIN",
         models |-> <<"gpt-4o", "gpt-4o-mini">>],
        [id |-> "openai_syth", name |-> "OpenAI Syth", key |-> "OPENAI_API_SYTH",
         models |-> <<"gpt-4o", "gpt-4o-mini">>],
        [id |-> "perplexity", name |-> "Perplexity", key |-> "PERPLEXITY_API_KEY",
         models |-> <<"sonar", "sonar-pro", "sonar-reasoning",
                      "llama-3.1-8b-instruct", "llama-3.1-70b-instruct">>],
        [id |-> "huggingface", name |-> "HuggingFace", key |-> "HF_API_KEY",
         models |-> <<"microsoft/DialoGPT-medium", "gpt2",
                      "facebook/blenderbot-400M-distill">>],
        [id |-> "mock", name |-> "Mock Generator", key |-> "available",
         models |-> <<"simple-manga-generator">>] >>,
     image |-> <<
        [id |-> "openai_primary", name |-> "OpenAI DALL-E", key |-> "OPENAI_API_KEY",
         models |-> <<"dall-e-3", "dall-e-2">>],
        [id |-> "openai_nin", name |-> "OpenAI Nin DALL-E", key |-> "OPENAI_API_NIN",
         models |-> <<"dall-e-3", "dall-e-2">>],
        [id |-> "openai_syth", name |-> "OpenAI Syth DALL-E", key |-> "OPENAI_API_SYTH",
         models |-> <<"dall-e-3", "dall-e-2">>],
        [id |-> "huggingface", name |-> "HuggingFace", key |-> "HF_API_KEY",
         models |-> <<>>] >>,
     voice |-> <<
        [id |-> "elevenlabs", name |-> "ElevenLabs", key |-> "ELEVENLABS_API_KEY",
         models |-> <<>>] >>]

\* variant: every declared engine counts as available
Available_always(e, keys) == TRUE

\* config.available: !!KEY, and the literal true of the mock generator
Available(e, keys) == e.id = "mock" \/ e.key \in keys

\* Object.entries(section).filter(([_, config]) => config.available), as ids
AvailableEngines(section, keys) ==
    Filter(Ids(section), {e.id : e \in {x \in Range(section) : Available(x, keys)}})

\* key.startsWith('openai') on the engine ids
StartsWithOpenAI(id) == id \in {"openai_primary", "openai_nin", "openai_syth", "openai"}

\* AI_ENGINES.image.huggingface.models: model key -> model path
HFModels ==
    [k \in {"counterfeit-v25", "waifu-diffusion", "stable-diffusion-xl", "anything-v4",
            "anime-diffusion", "manga-diffusion"} |->
        CASE k = "counterfeit-v25" -> "gsdf/Counterfeit-V2.5"
          [] k = "waifu-diffusion" -> "hakurei/waifu-diffusion"
          [] k = "stable-diffusion-xl" -> "stabilityai/stable-diffusion-xl-base-1.0"
          [] k = "anything-v4" -> "andite/anything-v4.0"
          [] k = "anime-diffusion" -> "Ojimi/anime-kawai-diffusion"
          [] OTHER -> "ogkalu/Comic-Diffusion"]

\* What a caller may send as engine and model ("" is an absent or empty value).
EngineParams == {"", "openai_primary", "openai_nin", "openai_syth", "perplexity",
                 "huggingface", "mock", "openai"}
ModelParams == {"", "gpt-4o", "waifu-diffusion"}

----------------------------------------------------------------------------
(* The complete AI system: generateText                                    *)

\* variant: the named engine is followed by the real engines only
OrderedTextEngines_noMockAfterNamed(engine, keys) ==
    LET availableEngines == AvailableEngines(AI_ENGINES.text, keys)
        avail == Range(availableEngines)
    IN  IF engine # "" /\ engine \in avail
        THEN <<engine>> \o Filter(availableEngines, avail \ {engine, "mock"})
        ELSE availableEngines

\* variant: the mock generator leads the default order
OrderedTextEngines_mockFirst(engine, keys) ==
    LET availableEngines == AvailableEngines(AI_ENGINES.text, keys)
        avail == Range(availableEngines)
    IN  IF engine # "" /\ engine \in avail
        THEN <<engine>> \o Filter(availableEngines, avail \ {engine})
        ELSE <<"mock">> \o Filter(availableEngines, avail \ {"mock"})

\* variant: the named engine is not moved to the front
OrderedTextEngines_ignoresNamed(engine, keys) ==
    AvailableEngines(AI_ENGINES.text, keys)

\* the candidate list of generateText
OrderedTextEngines(engine, keys) ==
    LET availableEngines == AvailableEngines(AI_ENGINES.text, keys)
        avail == Range(availableEngines)
        openAIEngines == Filter(availableEngines, {k \in avail : StartsWithOpenAI(k)})
        otherRealEngines ==
            Filter(availableEngines, {k \in avail : ~StartsWithOpenAI(k) /\ k # "mock"})
        mockEngines == Filter(availableEngines, {k \in avail : k = "mock"})
    IN  IF engine # "" /\ engine \in avail
        THEN <<engine>> \o Filter(availableEngines, avail \ {engine})
        ELSE openAIEngines \o otherRealEngines \o mockEngines

\* tryModel: model || engineConfig.models[0], replaced for Perplexity by its first
\* model when it is not one of Perplexity's
TryModel(engineKey, model) ==
    LET models == Entry(AI_ENGINES.text, engineKey).models
        m == IF model # "" THEN model ELSE models[1]
    IN  IF engineKey = "perplexity" /\ m \notin Range(models) THEN models[1] ELSE m

\* content as read from a success response
TextContent(engineKey, res) ==
    IF engineKey = "huggingface" THEN OrEmpty(res.body) ELSE Trim(OrEmpty(res.body))

\* whether the attempt returns (content && content.length > 0 after res.ok)
TextSucceeds(engineKey, res) == Ok(res) /\ TextContent(engineKey, res) # ""

\* the message of the error the attempt throws otherwise (the provider's own
\* detail after the status is left out)
TextAttemptError(engineKey, res) ==
    IF res.transport THEN FetchFailed
    ELSE IF ~Ok(res)
         THEN Entry(AI_ENGINES.text, engineKey).name \o " error: " \o ToString(res.status)
         ELSE "Empty response from engine"

\* the value generateText returns from a provider's answer
TextResult(engineKey, tryModel, res) ==
    [payload |-> TextContent(engineKey, res), engine |-> engineKey, model |-> tryModel]

\* JSON.stringify(mockScript)
MockContent == "{\"title\":\"Generated Manga Chapter\",\"pages\":[{\"panels\":[...]}]}"

\* the message thrown after the loop
AllTextFailed(last) ==
    "All text engines failed. Last error: " \o (IF last = "" THEN "Unknown error" ELSE last)

NoParams == [engine |-> "", model |-> "", prompt |-> "", characterName |-> "",
             isCharacterFocused |-> FALSE]

\* a call begins: parameters destructured, the logs of the call empty
Begin(f, p) ==
    /\ fn = "" /\ pc = "idle"
    /\ fn' = f
    /\ params' = p
    /\ idx' = 1
    /\ lastError' = ""
    /\ attempted' = <<>>
    /\ fetches' = <<>>
    /\ lastRes' = NoResponse
    /\ result' = NoResult
    /\ UNCHANGED <<env, clientVars, batchVars, pageVars>>

\* generateText up to its loop: the availability check and the candidate order
generateText(engine, model) ==
    /\ Begin("generateText", [NoParams EXCEPT !.engine = engine, !.model = model])
    /\ enhancedPrompt' = ""
    /\ UNCHANGED cacheVars
    /\ IF AvailableEngines(AI_ENGINES.text, env) = <<>>
       THEN /\ pc' = "failed"
            /\ error' = "No text generation engines available"
            /\ orderedEngines' = <<>>
       ELSE /\ pc' = "trying"
            /\ error' = ""
            /\ orderedEngines' = OrderedTextEngines(engine, env)

\* one iteration of generateText's loop, the provider answering res
generateTextTry(res) ==
    /\ fn = "generateText" /\ pc = "trying"
    /\ LET engineKey == orderedEngines[idx]
           tryModel == TryModel(engineKey, params.model)
       IN  /\ attempted' = Append(attempted, engineKey)
           /\ IF engineKey = "mock"
              THEN /\ res = NoResponse
                   /\ result' = [payload |-> MockContent, engine |-> engineKey,
                                 model |-> tryModel]
                   /\ pc' = "done"
                   /\ UNCHANGED <<fetches, lastRes, lastError, idx, error>>
              ELSE /\ res \in Responses
                   /\ fetches' = Append(fetches, [engine |-> engineKey, model |-> tryModel,
                                                 prompt |-> ""])
                   /\ lastRes' = res
                   /\ IF TextSucceeds(engineKey, res)
                      THEN /\ result' = TextResult(engineKey, tryModel, res)
                           /\ pc' = "done"
                           /\ UNCHANGED <<lastError, idx, error>>
                      ELSE /\ lastError' = TextAttemptError(engineKey, res)
                           /\ UNCHANGED result
                           /\ IF idx < Len(orderedEngines)
                              THEN /\ idx' = idx + 1
                                   /\ UNCHANGED <<pc, error>>
                              ELSE /\ pc' = "failed"
                                   /\ error' = AllTextFailed(lastError')
                                   /\ UNCHANGED idx
    /\ UNCHANGED <<env, clientVars, batchVars, pageVars, fn, params, enhancedPrompt, orderedEngines, cacheVars>>

----------------------------------------------------------------------------
(* The complete AI system: character consistency and generateImage         *)

\* Array.prototype.join
RECURSIVE Join(_, _)
Join(s, sep) ==
    IF s = <<>> THEN ""
    ELSE IF Len(s) = 1 THEN s[1]
    ELSE s[1] \o sep \o Join(Tail(s), sep)

\* Array.prototype.slice(0, n)
Slice(s, n) == IF Len(s) <= n THEN s ELSE SubSeq(s, 1, n)

\* A prompt: its text, and what each of extractCharacterTraits' four patterns
\* matches in it, in order of occurrence.
PlainPrompt ==
    [text |-> "a robot in the rain",
     hair |-> <<>>, eyes |-> <<>>, clothing |-> <<>>, build |-> <<>>]
KimonoPrompt ==
    [text |-> "a young girl with long black hair and blue eyes wearing a red kimono and a jacket",
     hair |-> <<"black hair">>, eyes |-> <<"blue eyes">>,
     clothing |-> <<"wearing", "kimono", "jacket">>, build |-> <<"young">>]

\* the trait string extracted from a prompt
extractCharacterTraits(prompt) ==
    LET traits == prompt.hair \o prompt.eyes \o Slice(prompt.clothing, 2)
                  \o Slice(prompt.build, 2)
    IN  IF traits = <<>>
        THEN Join(<<"distinctive character design", "memorable appearance">>, ", ")
        ELSE Join(traits, ", ")

\* variant: the character profile is used whenever a name is given
UsesCache_nameOnly(characterName, isCharacterFocused) == characterName # ""

\* characterName && isCharacterFocused
UsesCache(characterName, isCharacterFocused) == characterName # "" /\ isCharacterFocused

\* the phrase that asks the provider for the design of the earlier appearances
ConsistencyDirective ==
    "same facial features, same hair, same clothing style as previous appearances"

\* variant: the stored traits are left out of the prompt
ReinforcedPrompt_noTraits(profile, prompt) ==
    profile.description \o ". " \o prompt.text
    \o ". Consistent character design, " \o ConsistencyDirective \o "."

\* the prompt sent for a character that has a profile
ReinforcedPrompt(profile, prompt) ==
    profile.description \o ", " \o profile.visualTraits \o ". " \o prompt.text
    \o ". Consistent character design, " \o ConsistencyDirective \o "."

\* the prompt sent for a character seen for the first time
EstablishingPrompt(traits, prompt) ==
    traits \o ". " \o prompt.text
    \o ". Establish consistent character design for future reference."

\* the profile stored for a character seen for the first time
NewProfile(characterName, traits, now) ==
    [description |-> "Character named " \o characterName,
     visualTraits |-> traits,
     lastUsed |-> now]

\* variant: the traits are extracted again from every prompt
Reinforce_reextract(profile, prompt, now) ==
    [profile EXCEPT !.visualTraits = extractCharacterTraits(prompt), !.lastUsed = now]

\* what a later call does to the profile: profile.lastUsed = Date.now()
Reinforce(profile, prompt, now) == [profile EXCEPT !.lastUsed = now]

\* variant: deleting a character clears the storage
DeleteProfile_all(profiles, name) == <<>>

\* characterProfiles.delete(name)
DeleteProfile(profiles, name) ==
    [n \in DOMAIN profiles \ {name} |-> profiles[n]]

\* variant: the named engine is put in front without being taken out of the rest
OrderedImageEngines_namedTwice(engine, keys) ==
    LET availableEngines == AvailableEngines(AI_ENGINES.image, keys)
        avail == Range(availableEngines)
    IN  IF engine # "" /\ engine \in avail
        THEN <<engine>> \o availableEngines
        ELSE availableEngines

\* variant: HuggingFace leads the default order
OrderedImageEngines_hfFirst(engine, keys) ==
    LET availableEngines == AvailableEngines(AI_ENGINES.image, keys)
        avail == Range(availableEngines)
    IN  IF engine # "" /\ engine \in avail
        THEN <<engine>> \o Filter(availableEngines, avail \ {engine})
        ELSE Filter(availableEngines, {k \in avail : ~StartsWithOpenAI(k)})
             \o Filter(availableEngines, {k \in avail : StartsWithOpenAI(k)})

\* the candidate list of generateImage
OrderedImageEngines(engine, keys) ==
    LET availableEngines == AvailableEngines(AI_ENGINES.image, keys)
        avail == Range(availableEngines)
    IN  IF engine # "" /\ engine \in avail
        THEN <<engine>> \o Filter(availableEngines, avail \ {engine})
        ELSE Filter(availableEngines, {k \in avail : StartsWithOpenAI(k)})
             \o Filter(availableEngines, {k \in avail : ~StartsWithOpenAI(k)})

\* selectedModel of an image attempt
SelectedModel(engineKey, model) ==
    IF engineKey = "huggingface"
    THEN LET modelKey == IF model # "" THEN model ELSE "counterfeit-v25"
         IN  IF modelKey \in DOMAIN HFModels THEN HFModels[modelKey]
             ELSE HFModels["counterfeit-v25"]
    ELSE "dall-e-3"

\* data.data?.[0]?.b64_json is truthy
HasB64(res) == res.body.has /\ res.body.text # ""

\* whether the image attempt returns
ImageSucceeds(engineKey, res) ==
    IF engineKey = "huggingface" THEN Ok(res) ELSE Ok(res) /\ HasB64(res)

\* imageUrl of a returning attempt
ImageUrl(engineKey, res) ==
    IF engineKey = "huggingface"
    THEN "data:image/png;base64," \o Base64(res.body)
    ELSE "data:image/png;base64," \o res.body.text

\* variant: the result names the first candidate of the list
ImageResult_firstCandidate(engineKey, selectedModel, res) ==
    [payload |-> ImageUrl(engineKey, res), engine |-> orderedEngines[1],
     model |-> selectedModel]

\* the value generateImage returns
ImageResult(engineKey, selectedModel, res) ==
    [payload |-> ImageUrl(engineKey, res), engine |-> engineKey, model |-> selectedModel]

WarmingUp == "Model is warming up. Please try again in 30-60 seconds."

\* variant: a 503 of HuggingFace is reported like any other status
ImageAttemptError_no503(engineKey, res) ==
    IF res.transport THEN FetchFailed
    ELSE IF engineKey = "huggingface"
         THEN "HuggingFace error: " \o ToString(res.status)
         ELSE IF ~Ok(res)
              THEN Entry(AI_ENGINES.image, engineKey).name \o " error: "
                   \o ToString(res.status)
              ELSE "No image returned from OpenAI."

\* the message of the error the image attempt throws otherwise
ImageAttemptError(engineKey, res) ==
    IF res.transport THEN FetchFailed
    ELSE IF engineKey = "huggingface"
         THEN IF res.status = 503 THEN WarmingUp
              ELSE "HuggingFace error: " \o ToString(res.status)
         ELSE IF ~Ok(res)
              THEN Entry(AI_ENGINES.image, engineKey).name \o " error: "
                   \o ToString(res.status)
              ELSE "No image returned from OpenAI."

\* the message thrown after the loop
AllImageFailed(last) ==
    "All image engines failed. Last error: " \o (IF last = "" THEN "Unknown error" ELSE last)

\* generateImage up to its loop: the character profile, the availability check
\* and the candidate order
generateImage(engine, model, prompt, characterName, isCharacterFocused) ==
    /\ Begin("generateImage",
             [engine |-> engine, model |-> model, prompt |-> prompt.text,
              characterName |-> characterName,
              isCharacterFocused |-> isCharacterFocused])
    /\ IF UsesCache(characterName, isCharacterFocused)
       THEN IF characterName \in DOMAIN characterProfiles
            THEN LET profile == characterProfiles[characterName]
                 IN  /\ enhancedPrompt' = ReinforcedPrompt(profile, prompt)
                     /\ characterProfiles' =
                            [characterProfiles EXCEPT
                                ![characterName] = Reinforce(profile, prompt, clock)]
            ELSE LET traits == extractCharacterTraits(prompt)
                 IN  /\ characterProfiles' =
                            characterProfiles @@
                            (characterName :> NewProfile(characterName, traits, clock))
                     /\ enhancedPrompt' = EstablishingPrompt(traits, prompt)
       ELSE /\ enhancedPrompt' = prompt.text
            /\ UNCHANGED characterProfiles
    /\ UNCHANGED <<clock, imageCalls, creditBalances, creditResponse>>
    /\ IF AvailableEngines(AI_ENGINES.image, env) = <<>>
       THEN /\ pc' = "failed"
            /\ error' = "No image generation engines available"
            /\ orderedEngines' = <<>>
       ELSE /\ pc' = "trying"
            /\ error' = ""
            /\ orderedEngines' = OrderedImageEngines(engine, env)

\* one iteration of generateImage's loop, the provider answering res
generateImageTry(res) ==
    /\ fn = "generateImage" /\ pc = "trying"
    /\ LET engineKey == orderedEngines[idx]
           selectedModel == SelectedModel(engineKey, params.model)
       IN  /\ attempted' = Append(attempted, engineKey)
           /\ fetches' = Append(fetches, [engine |-> engineKey, model |-> selectedModel,
                                         prompt |-> enhancedPrompt])
           /\ lastRes' = res
           /\ IF ImageSucceeds(engineKey, res)
              THEN /\ result' = ImageResult(engineKey, selectedModel, res)
                   /\ pc' = "done"
                   /\ UNCHANGED <<lastError, idx, error>>
              ELSE /\ lastError' = ImageAttemptError(engineKey, res)
                   /\ UNCHANGED result
                   /\ IF idx < Len(orderedEngines)
                      THEN /\ idx' = idx + 1
                           /\ UNCHANGED <<pc, error>>
                      ELSE /\ pc' = "failed"
                           /\ error' = AllImageFailed(lastError')
                           /\ UNCHANGED idx
    /\ UNCHANGED <<env, clientVars, batchVars, pageVars, fn, params, enhancedPrompt, orderedEngines, cacheVars>>

----------------------------------------------------------------------------
(* The complete AI system: generateVoice                                   *)

\* generateVoice up to its fetch: the credential check
generateVoice ==
    /\ Begin("generateVoice", NoParams)
    /\ enhancedPrompt' = ""
    /\ orderedEngines' = <<>>
    /\ UNCHANGED cacheVars
    /\ IF "ELEVENLABS_API_KEY" \notin env
       THEN /\ pc' = "failed"
            /\ error' = "ElevenLabs API key not configured"
       ELSE /\ pc' = "trying"
            /\ error' = ""

\* the text-to-speech request and its answer; the result is {audioUrl, voice},
\* with no engine or model field
generateVoiceFetch(res) ==
    /\ fn = "generateVoice" /\ pc = "trying"
    /\ attempted' = Append(attempted, "elevenlabs")
    /\ fetches' = Append(fetches, [engine |-> "elevenlabs",
                                  model |-> "eleven_monolingual_v1", prompt |-> ""])
    /\ lastRes' = res
    /\ IF Ok(res)
       THEN /\ result' = [payload |-> "data:audio/mpeg;base64," \o Base64(res.body),
                          engine |-> "", model |-> ""]
            /\ pc' = "done"
            /\ UNCHANGED error
       ELSE /\ pc' = "failed"
            /\ error' = IF res.transport THEN FetchFailed
                        ELSE "ElevenLabs error: " \o ToString(res.status)
            /\ UNCHANGED result
    /\ UNCHANGED <<env, clientVars, batchVars, pageVars, fn, params, enhancedPrompt, orderedEngines, idx, lastError,
                   cacheVars>>

----------------------------------------------------------------------------
(* routes/ai-engines.ts: a selected engine, then the fallback engines       *)

TEXT_ENGINES ==
    << [id |-> "openai", name |-> "OpenAI", key |-> "OPENAI_API_KEY",
        models |-> <<"gpt-4o", "gpt-4o-mini", "gpt-3.5-turbo">>],
       [id |-> "perplexity", name |-> "Perplexity", key |-> "PERPLEXITY_API_KEY",
        models |-> <<"llama-3.1-sonar-small-128k-online",
                     "llama-3.1-sonar-large-128k-online", "sonar">>],
       [id |-> "huggingface", name |-> "HuggingFace", key |-> "HF_API_KEY",
        models |-> <<"microsoft/DialoGPT-large", "meta-llama/Llama-2-7b-chat-hf",
                     "mistralai/Mistral-7B-Instruct-v0.1">>] >>

IMAGE_ENGINES ==
    << [id |-> "openai", name |-> "OpenAI DALL-E", key |-> "OPENAI_API_KEY",
        models |-> <<"dall-e-3", "dall-e-2">>],
       [id |-> "huggingface", name |-> "HuggingFace", key |-> "HF_API_KEY",
        models |-> <<>>] >>

\* the keys of IMAGE_ENGINES.huggingface.models
ImageEnginesHFKeys ==
    {"counterfeit-v25", "waifu-diffusion", "stable-diffusion-xl", "anything-v4",
     "anime-diffusion"}

\* openaiChat, perplexityChat, huggingfaceChat: whether the call throws
ChatThrows(engineKey, res) == res.transport \/ ~Ok(res)

\* ... the message it throws
ChatError(engineKey, res) ==
    IF res.transport THEN FetchFailed
    ELSE IF engineKey = "huggingface"
         THEN IF res.status = 503 THEN WarmingUp
              ELSE "HuggingFace error: " \o ToString(res.status)
         ELSE Entry(TEXT_ENGINES, engineKey).name \o " error: " \o ToString(res.status)

\* ... the string it returns
ChatContent(engineKey, res) ==
    IF engineKey = "huggingface" THEN OrEmpty(res.body) ELSE Trim(OrEmpty(res.body))

\* the selected engine followed by the fallback engines
AiOrderedEngines(section, engine, preferred, keys) ==
    LET availableEngines == AvailableEngines(section, keys)
        avail == Range(availableEngines)
        selectedEngine ==
            IF engine # "" /\ engine \in avail THEN engine
            ELSE IF preferred \in avail THEN preferred
            ELSE availableEngines[1]
    IN  <<selectedEngine>> \o Filter(availableEngines, avail \ {selectedEngine})

\* ai-engines.ts generateText up to its first call
aiGenerateText(engine, model) ==
    /\ Begin("ai.generateText", [NoParams EXCEPT !.engine = engine, !.model = model])
    /\ enhancedPrompt' = ""
    /\ UNCHANGED cacheVars
    /\ IF AvailableEngines(TEXT_ENGINES, env) = <<>>
       THEN /\ pc' = "failed"
            /\ error' = "No text generation engines available"
            /\ orderedEngines' = <<>>
       ELSE /\ pc' = "trying"
            /\ error' = ""
            \* no preference of its own: the first available engine
            /\ orderedEngines' = AiOrderedEngines(TEXT_ENGINES, engine, "", env)

\* the call to the selected engine (idx = 1) or to a fallback engine (idx > 1);
\* lastError keeps the error caught from the selected engine
aiGenerateTextTry(res) ==
    /\ fn = "ai.generateText" /\ pc = "trying"
    /\ LET engineKey == orderedEngines[idx]
           models == Entry(TEXT_ENGINES, engineKey).models
           usedModel == IF idx = 1 /\ params.model # "" THEN params.model ELSE models[1]
       IN  /\ attempted' = Append(attempted, engineKey)
           /\ fetches' = Append(fetches, [engine |-> engineKey, model |-> usedModel,
                                         prompt |-> ""])
           /\ lastRes' = res
           /\ IF ~ChatThrows(engineKey, res)
              THEN /\ result' = [payload |-> ChatContent(engineKey, res),
                                 engine |-> engineKey, model |-> usedModel]
                   /\ pc' = "done"
                   /\ UNCHANGED <<lastError, idx, error>>
              ELSE /\ lastError' = IF idx = 1 THEN ChatError(engineKey, res) ELSE lastError
                   /\ UNCHANGED result
                   /\ IF idx < Len(orderedEngines)
                      THEN /\ idx' = idx + 1
                           /\ UNCHANGED <<pc, error>>
                      ELSE /\ pc' = "failed"
                           /\ error' = lastError'
                           /\ UNCHANGED idx
    /\ UNCHANGED <<env, clientVars, batchVars, pageVars, fn, params, enhancedPrompt, orderedEngines, cacheVars>>

\* selectedModel of ai-engines.ts generateImage
AiSelectedModel(engineKey, model, primary) ==
    IF engineKey = "huggingface"
    THEN LET modelKey == IF primary /\ model # "" THEN model ELSE "counterfeit-v25"
         IN  IF modelKey \in ImageEnginesHFKeys THEN HFModels[modelKey]
             ELSE HFModels["counterfeit-v25"]
    ELSE "dall-e-3"

\* openaiImage, huggingfaceImage: the message thrown
AiImageError(engineKey, res) ==
    IF res.transport THEN FetchFailed
    ELSE IF engineKey = "huggingface"
         THEN IF res.status = 503 THEN WarmingUp
              ELSE "HuggingFace Image error: " \o ToString(res.status)
         ELSE IF ~Ok(res) THEN "OpenAI Image error: " \o ToString(res.status)
              ELSE "No image returned from OpenAI."

\* ai-engines.ts generateImage up to its first call
aiGenerateImage(engine, model, prompt) ==
    /\ Begin("ai.generateImage",
             [NoParams EXCEPT !.engine = engine, !.model = model, !.prompt = prompt.text])
    /\ enhancedPrompt' = prompt.text
    /\ UNCHANGED cacheVars
    /\ IF AvailableEngines(IMAGE_ENGINES, env) = <<>>
       THEN /\ pc' = "failed"
            /\ error' = "No image generation engines available"
            /\ orderedEngines' = <<>>
       ELSE /\ pc' = "trying"
            /\ error' = ""
            \* prefer HuggingFace for anime/manga style, then OpenAI
            /\ orderedEngines' = AiOrderedEngines(IMAGE_ENGINES, engine, "huggingface", env)

\* the call to the selected engine (idx = 1) or to a fallback engine (idx > 1)
aiGenerateImageTry(res) ==
    /\ fn = "ai.generateImage" /\ pc = "trying"
    /\ LET engineKey == orderedEngines[idx]
           selectedModel == AiSelectedModel(engineKey, params.model, idx = 1)
       IN  /\ attempted' = Append(attempted, engineKey)
           /\ fetches' = Append(fetches, [engine |-> engineKey, model |-> selectedModel,
                                         prompt |-> enhancedPrompt])
           /\ lastRes' = res
           /\ IF ImageSucceeds(engineKey, res)
              THEN /\ result' = [payload |-> ImageUrl(engineKey, res),
                                 engine |-> engineKey, model |-> selectedModel]
                   /\ pc' = "done"
                   /\ UNCHANGED <<lastError, idx, error>>
              ELSE /\ lastError' = IF idx = 1 THEN AiImageError(engineKey, res) ELSE lastError
                   /\ UNCHANGED result
                   /\ IF idx < Len(orderedEngines)
                      THEN /\ idx' = idx + 1
                           /\ UNCHANGED <<pc, error>>
                      ELSE /\ pc' = "failed"
                           /\ error' = lastError'
                           /\ UNCHANGED idx
    /\ UNCHANGED <<env, clientVars, batchVars, pageVars, fn, params, enhancedPrompt, orderedEngines, cacheVars>>

----------------------------------------------------------------------------
(* The earlier complete AI system: generateImage, one engine, no failover  *)

\* the one engine it selects
LegacySelectedEngine(engine, keys) ==
    LET availableEngines == AvailableEngines(AI_ENGINES.image, keys)
        avail == Range(availableEngines)
    IN  IF engine # "" /\ engine \in avail THEN engine
        ELSE IF "huggingface" \in avail THEN "huggingface"
        ELSE availableEngines[1]

legacyGenerateImage(engine, model, prompt) ==
    /\ Begin("legacy.generateImage",
             [NoParams EXCEPT !.engine = engine, !.model = model, !.prompt = prompt.text])
    /\ enhancedPrompt' = prompt.text
    /\ UNCHANGED cacheVars
    /\ IF AvailableEngines(AI_ENGINES.image, env) = <<>>
       THEN /\ pc' = "failed"
            /\ error' = "No image generation engines available"
            /\ orderedEngines' = <<>>
       ELSE /\ pc' = "trying"
            /\ error' = ""
            /\ orderedEngines' = <<LegacySelectedEngine(engine, env)>>

\* its one request; a failure is thrown to the caller as it is
legacyGenerateImageFetch(res) ==
    /\ fn = "legacy.generateImage" /\ pc = "trying"
    /\ LET engineKey == orderedEngines[1]
           selectedModel == SelectedModel(engineKey, params.model)
       IN  /\ attempted' = Append(attempted, engineKey)
           /\ fetches' = Append(fetches, [engine |-> engineKey, model |-> selectedModel,
                                         prompt |-> enhancedPrompt])
           /\ lastRes' = res
           /\ IF ImageSucceeds(engineKey, res)
              THEN /\ result' = [payload |-> ImageUrl(engineKey, res),
                                 engine |-> engineKey, model |-> selectedModel]
                   /\ pc' = "done"
                   /\ UNCHANGED error
              ELSE /\ pc' = "failed"
                   /\ error' = ImageAttemptError(engineKey, res)
                   /\ UNCHANGED result
    /\ UNCHANGED <<env, clientVars, batchVars, pageVars, fn, params, enhancedPrompt, orderedEngines, idx, lastError,
                   cacheVars>>

----------------------------------------------------------------------------
(* routes/image-generation.ts: POST /api/image/generate                    *)

\* the keys of HF_MODELS
HF_MODELS == {"counterfeit-v25", "waifu-diffusion", "stable-diffusion-xl", "anything-v4"}

\* generateImage's engine: the one named, else by the credentials present
RouteSelectedEngine(engine, keys) ==
    IF engine # "" THEN engine
    ELSE IF "OPENAI_API_KEY" \in keys THEN "openai"
    ELSE IF "HF_API_KEY" \in keys THEN "huggingface"
    ELSE ""

\* the error thrown before any request, "" when the request is made
RouteRefusal(engine, keys) ==
    LET selectedEngine == RouteSelectedEngine(engine, keys)
    IN  IF selectedEngine = "" THEN "No image generation API keys configured"
        ELSE IF selectedEngine = "openai"
             THEN IF "OPENAI_API_KEY" \in keys THEN ""
                  ELSE "OPENAI_API_KEY is not configured"
        ELSE IF selectedEngine = "huggingface"
             THEN IF "HF_API_KEY" \in keys THEN "" ELSE "HF_API_KEY is not configured"
        ELSE "Unknown image generation engine: " \o selectedEngine

\* HF_MODELS[model], model defaulting to 'counterfeit-v25'
RouteModelPath(model) ==
    LET key == IF model # "" THEN model ELSE "counterfeit-v25"
    IN  IF key \in HF_MODELS THEN HFModels[key] ELSE "undefined"

\* the model the request is sent to
RouteSentModel(selectedEngine, model) ==
    IF selectedEngine = "openai" THEN "dall-e-3" ELSE RouteModelPath(model)

ColdStart == "Model is warming up (cold start). Please try again in 30-60 seconds."

\* openaiImage, hfImage: the message thrown (a 503 whose body does not say
\* 'loading' is an ordinary failure; its body was consumed by res.json(), so
\* res.text() yields '')
RouteImageError(selectedEngine, res) ==
    IF res.transport THEN FetchFailed
    ELSE IF selectedEngine = "huggingface"
         THEN IF res.status = 503 /\ SaysLoading(res.body) THEN ColdStart
              ELSE "HuggingFace API failed: " \o ToString(res.status) \o " - "
                   \o (IF res.status = 503 THEN "" ELSE OrEmpty(res.body))
         ELSE IF ~Ok(res) THEN "OpenAI Image API error: " \o ToString(res.status)
              ELSE "No image returned from OpenAI."

\* the engine and model the handler reports beside imageUrl
RouteReportedEngine(engine, keys) ==
    IF engine # "" THEN engine
    ELSE IF "OPENAI_API_KEY" \in keys THEN "openai" ELSE "huggingface"

RouteReportedModel(model) == IF model # "" THEN model ELSE "counterfeit-v25"

\* the handler up to the provider request
postImageGenerate(engine, model, prompt) ==
    /\ Begin("POST /api/image/generate",
             [NoParams EXCEPT !.engine = engine, !.model = model, !.prompt = prompt.text])
    /\ enhancedPrompt' = prompt.text
    /\ UNCHANGED cacheVars
    /\ IF RouteRefusal(engine, env) # ""
       THEN /\ pc' = "failed"
            /\ error' = RouteRefusal(engine, env)
            /\ orderedEngines' = <<>>
       ELSE /\ pc' = "trying"
            /\ error' = ""
            /\ orderedEngines' = <<RouteSelectedEngine(engine, env)>>

\* the provider request and the handler's response
postImageGenerateFetch(res) ==
    /\ fn = "POST /api/image/generate" /\ pc = "trying"
    /\ LET selectedEngine == orderedEngines[1]
       IN  /\ attempted' = Append(attempted, selectedEngine)
           /\ fetches' = Append(fetches,
                                [engine |-> selectedEngine,
                                 model |-> RouteSentModel(selectedEngine, params.model),
                                 prompt |-> enhancedPrompt])
           /\ lastRes' = res
           /\ IF ImageSucceeds(selectedEngine, res)
              THEN /\ result' = [payload |-> ImageUrl(selectedEngine, res),
                                 engine |-> RouteReportedEngine(params.engine, env),
                                 model |-> RouteReportedModel(params.model)]
                   /\ pc' = "done"
                   /\ UNCHANGED error
              ELSE /\ pc' = "failed"
                   /\ error' = RouteImageError(selectedEngine, res)
                   /\ UNCHANGED result
    /\ UNCHANGED <<env, clientVars, batchVars, pageVars, fn, params, enhancedPrompt, orderedEngines, idx, lastError,
                   cacheVars>>

----------------------------------------------------------------------------
(* The client: JSON texts and values                                       *)
(*                                                                         *)
(* A text is a sequence of tokens: the punctuation of JSON, the double     *)
(* quote, the newline, the triple backtick, and words.  A value is a       *)
(* record [kind, text, items]: a string holds its words in text, a number  *)
(* its literal, an array and an object hold their items (an object's items *)
(* have a key).                                                            *)

\* the triple backtick
FENCE == "<fence>"
QUOTE == "\""
NL == "\n"

NumberLiterals == {"1", "2"}

JStr(words) == [kind |-> "string", text |-> words, items |-> <<>>]
JNum(literal) == [kind |-> "number", text |-> <<literal>>, items |-> <<>>]
JArr(values) ==
    [kind |-> "array", text |-> <<>>,
     items |-> [k \in DOMAIN values |-> [key |-> <<>>, value |-> values[k]]]]
JObj(members) == [kind |-> "object", text |-> <<>>, items |-> members]
Member(name, value) == [key |-> <<name>>, value |-> value]
JNull == [kind |-> "null", text |-> <<>>, items |-> <<>>]

\* obj[name], JNull standing for undefined
Get(obj, name) ==
    IF obj.kind = "object" /\ \E k \in DOMAIN obj.items : obj.items[k].key = <<name>>
    THEN obj.items[CHOOSE k \in DOMAIN obj.items : obj.items[k].key = <<name>>].value
    ELSE JNull

\* the elements of an array value
Elements(arr) == [k \in DOMAIN arr.items |-> arr.items[k].value]

\* JSON.stringify
RECURSIVE Stringify(_)
RECURSIVE StringifyItems(_, _)
StringifyItems(items, withKeys) ==
    IF items = <<>> THEN <<>>
    ELSE (IF withKeys THEN <<QUOTE>> \o Head(items).key \o <<QUOTE, ":">> ELSE <<>>)
         \o Stringify(Head(items).value)
         \o (IF Len(items) > 1 THEN <<",">> ELSE <<>>)
         \o StringifyItems(Tail(items), withKeys)
Stringify(v) ==
    IF v.kind = "string" THEN <<QUOTE>> \o v.text \o <<QUOTE>>
    ELSE IF v.kind = "number" THEN v.text
    ELSE IF v.kind = "array" THEN <<"[">> \o StringifyItems(v.items, FALSE) \o <<"]">>
    ELSE IF v.kind = "object" THEN <<"{">> \o StringifyItems(v.items, TRUE) \o <<"}">>
    ELSE <<"null">>

\* the least element of a nonempty set of numbers
Min(S) == CHOOSE m \in S : \A n \in S : m <= n

\* the first position from i on that holds no whitespace
RECURSIVE SkipWs(_, _)
SkipWs(toks, i) ==
    IF i <= Len(toks) /\ toks[i] = NL THEN SkipWs(toks, i + 1) ELSE i

\* the first position from i on that holds the token, Len(toks) + 1 if none
IndexOf(toks, tok, i) ==
    Min({j \in i..Len(toks) : toks[j] = tok} \cup {Len(toks) + 1})

Unparsed == [ok |-> FALSE, value |-> JNull, next |-> 0]

\* JSON.parse: a string literal from the quote at i to the quote at j
StringUpTo(toks, i, j) ==
    IF j > Len(toks) THEN Unparsed
    ELSE IF \E k \in (i + 1)..(j - 1) : toks[k] = NL THEN Unparsed
    ELSE [ok |-> TRUE, value |-> JStr(SubSeq(toks, i + 1, j - 1)), next |-> j + 1]

\* JSON.parse: a string literal starting at i
ParseString(toks, i) ==
    IF i > Len(toks) \/ toks[i] # QUOTE THEN Unparsed
    ELSE StringUpTo(toks, i, IndexOf(toks, QUOTE, i + 1))

\* the token that closes an object or an array
Close(withKeys) == IF withKeys THEN "}" ELSE "]"

\* JSON.parse: a value starting at i; the items of an array or object from k
\* on, acc holding those read already.  The steps of reading one item follow
\* each other: its key, the colon, its value, the separator.
RECURSIVE ParseValue(_, _)
RECURSIVE ItemsAt(_, _, _, _)

\* after a comma at least one more item must come
MoreItems(toks, k, acc, withKeys) ==
    IF k <= Len(toks) /\ toks[k] = Close(withKeys) THEN Unparsed
    ELSE ItemsAt(toks, k, acc, withKeys)

AfterItem(toks, sep, acc, withKeys) ==
    IF sep > Len(toks) THEN Unparsed
    ELSE IF toks[sep] = Close(withKeys)
         THEN [ok |-> TRUE, value |-> acc, next |-> sep + 1]
    ELSE IF toks[sep] = ","
         THEN MoreItems(toks, SkipWs(toks, sep + 1), acc, withKeys)
    ELSE Unparsed

AfterValue(toks, name, v, acc, withKeys) ==
    IF ~v.ok THEN Unparsed
    ELSE AfterItem(toks, SkipWs(toks, v.next),
                   Append(acc, [key |-> name, value |-> v.value]), withKeys)

AfterColon(toks, name, colon, acc) ==
    IF colon > Len(toks) \/ toks[colon] # ":" THEN Unparsed
    ELSE AfterValue(toks, name, ParseValue(toks, colon + 1), acc, TRUE)

AfterKey(toks, key, acc) ==
    IF ~key.ok THEN Unparsed
    ELSE AfterColon(toks, key.value.text, SkipWs(toks, key.next), acc)

ItemsAt(toks, k, acc, withKeys) ==
    IF k > Len(toks) THEN Unparsed
    ELSE IF toks[k] = Close(withKeys) /\ acc = <<>>
         THEN [ok |-> TRUE, value |-> acc, next |-> k + 1]
    ELSE IF withKeys THEN AfterKey(toks, ParseString(toks, k), acc)
    ELSE AfterValue(toks, <<>>, ParseValue(toks, k), acc, FALSE)

\* the array or object whose items were read
Collection(open, items) ==
    IF ~items.ok THEN Unparsed
    ELSE [ok |-> TRUE,
          value |-> [kind |-> IF open = "{" THEN "object" ELSE "array",
                     text |-> <<>>, items |-> items.value],
          next |-> items.next]

ValueAt(toks, k) ==
    IF k > Len(toks) THEN Unparsed
    ELSE IF toks[k] = QUOTE THEN ParseString(toks, k)
    ELSE IF toks[k] \in NumberLiterals
         THEN [ok |-> TRUE, value |-> JNum(toks[k]), next |-> k + 1]
    ELSE IF toks[k] \in {"{", "["}
         THEN Collection(toks[k], ItemsAt(toks, SkipWs(toks, k + 1), <<>>, toks[k] = "{"))
    ELSE Unparsed

ParseValue(toks, i) == ValueAt(toks, SkipWs(toks, i))

\* the whole text must be one value
WholeText(toks, r) ==
    IF r.ok /\ SkipWs(toks, r.next) > Len(toks)
    THEN [thrown |-> FALSE, value |-> r.value]
    ELSE [thrown |-> TRUE, value |-> JNull]

\* JSON.parse(text): the value, or thrown |-> TRUE for a SyntaxError
JSONparse(toks) == WholeText(toks, ParseValue(toks, 1))

----------------------------------------------------------------------------
(* The script of the mock text generator                                   *)

\* a panel of mockScript
mockPanel(panelNumber, description, dialogue, mood, imagePrompt) ==
    JObj(<<Member("panelNumber", JNum(panelNumber)),
           Member("description", JStr(<<description>>)),
           Member("dialogue", JStr(<<dialogue>>)),
           Member("mood", JStr(<<mood>>)),
           Member("characters", JArr(<<JStr(<<"protagonist">>)>>)),
           Member("imagePrompt", JStr(<<imagePrompt>>))>>)

\* the object literal the mock generator stringifies: MockContent is
\* JSON.stringify(mockScript)
mockScript ==
    JObj(<<Member("title", JStr(<<"Generated Manga Chapter">>)),
           Member("pages", JArr(<<
              JObj(<<Member("panels", JArr(<<
                 mockPanel("1",
                    "A young protagonist stands at the edge of a cliff, looking out at a vast landscape",
                    "This is where my adventure begins...",
                    "hopeful",
                    "anime style, young person standing on cliff edge, scenic landscape, hopeful expression, morning light"),
                 mockPanel("2",
                    "Close-up of the protagonist's determined face",
                    "I won't give up!",
                    "determined",
                    "anime style, close-up determined face, young person, bright eyes, manga style")>>))>>)>>))>>)

----------------------------------------------------------------------------
(* The client: lib/manga-api-server.ts                                     *)

\* rawResponse.match(...) gives null
NoMatch == [found |-> FALSE, inner |-> <<>>]

\* rawResponse.match of the regex: the first fence tagged json that a later
\* fence closes, and the text up to the first such closing fence
FenceMatch(toks) ==
    LET starts == {i \in DOMAIN toks :
                        /\ toks[i] = FENCE
                        /\ i < Len(toks) /\ toks[i + 1] = "json"
                        /\ IndexOf(toks, FENCE, i + 2) <= Len(toks)}
    IN  IF starts = {} THEN NoMatch
        ELSE LET i == Min(starts)
             IN  [found |-> TRUE,
                  inner |-> SubSeq(toks, i + 2, IndexOf(toks, FENCE, i + 2) - 1)]

ScriptParseError == "Failed to parse manga script JSON response"
SyntaxError == "SyntaxError: Unexpected token in JSON"

\* json = JSON.parse(match[1])
Salvaged(inner) ==
    IF inner.thrown THEN [error |-> SyntaxError, json |-> JNull]
    ELSE [error |-> "", json |-> inner.value]

\* the catch branch of generateMangaScript
Salvage(match) ==
    IF match.found THEN Salvaged(JSONparse(match.inner))
    ELSE [error |-> ScriptParseError, json |-> JNull]

\* the try branch of generateMangaScript
Direct(raw, direct) ==
    IF ~direct.thrown THEN [error |-> "", json |-> direct.value]
    ELSE Salvage(FenceMatch(raw))

\* generateMangaScript from data.content on: the script, or the message of
\* the error thrown
ParseScript(raw) == Direct(raw, JSONparse(raw))

\* the characters of a string value
Text(v) == IF v.kind = "string" THEN Join(v.text, "") ELSE "undefined"

IMAGE_STYLE_PRIMER ==
    "Black-and-white Japanese manga panel. Dynamic composition. Clean inks, bold shadows, crosshatching, screentones, motion/speed lines. High contrast. Leave clear negative space for speech bubbles if dialogue exists. No color."

\* panel.dialogue?.length, 0 standing for undefined too
DialogueLength(panel) ==
    LET dialogue == Get(panel, "dialogue")
    IN  IF dialogue.kind = "array" THEN Len(dialogue.items) ELSE 0

\* variant: two lines are needed before a hint about the side is given up
DialogueHint_topOnly(panel) ==
    IF DialogueLength(panel) # 0
    THEN "Leave negative space along top for speech bubbles."
    ELSE "Leave generous negative space for possible lettering."

\* dialogueHint of buildImagePrompt
DialogueHint(panel) ==
    IF DialogueLength(panel) # 0
    THEN "Leave negative space along "
         \o (IF DialogueLength(panel) > 1 THEN "top and side" ELSE "top")
         \o " for speech bubbles."
    ELSE "Leave generous negative space for possible lettering."

\* a list of strings joined by ", ", or the default when absent or empty
JoinedOr(list, default) ==
    IF list.kind = "array" /\ list.items # <<>>
    THEN Join([k \in DOMAIN list.items |-> Text(list.items[k].value)], ", ")
    ELSE default

\* charList of buildImagePrompt
CharList(styleBible) ==
    LET characters == Get(styleBible, "characters")
        describe(c) ==
            Text(Get(c, "name")) \o ": " \o Text(Get(c, "appearance"))
            \o "; costume: " \o Text(Get(c, "costume"))
            \o "; typical poses: " \o JoinedOr(Get(c, "poses"), "undefined")
            \o "; expressions: " \o JoinedOr(Get(c, "expressions"), "undefined")
    IN  IF characters.kind = "array"
        THEN Join([k \in DOMAIN characters.items |-> describe(characters.items[k].value)],
                  " | ")
        ELSE ""

\* buildImagePrompt: the lines it joins with a newline
buildImagePrompt(panel, styleBible) ==
    << IMAGE_STYLE_PRIMER,
       "Panel " \o Text(Get(panel, "id")) \o ": " \o Text(Get(panel, "description")),
       "SFX cues: " \o JoinedOr(Get(panel, "sfx"), "none") \o ".",
       "Characters: " \o (IF CharList(styleBible) # "" THEN CharList(styleBible)
                           ELSE "Follow style bible."),
       "Camera/composition: Prioritize clarity of action; dynamic angle; readable silhouettes.",
       DialogueHint(panel) >>

\* script.pages.flatMap(page => page.panels)
RECURSIVE FlatMapPanels(_)
FlatMapPanels(pages) ==
    IF pages = <<>> THEN <<>>
    ELSE Elements(Get(Head(pages), "panels")) \o FlatMapPanels(Tail(pages))
AllPanels(mangaScript) == FlatMapPanels(Elements(Get(mangaScript, "pages")))

----------------------------------------------------------------------------
(* The client: the state of the page                                       *)

\* the useState initial values of pages/manga-generator.tsx
ClientInit ==
    /\ apiKeyConfigured = FALSE
    /\ script = JNull
    /\ images = <<>>
    /\ status = "Ready to begin"
    /\ isGeneratingScript = FALSE
    /\ isGeneratingImages = FALSE
    /\ generatingPanels = {}
    /\ toasts = <<>>
    /\ handler = ""
    /\ allPanels = <<>>
    /\ capturedImages = <<>>
    /\ newImages = <<>>
    /\ panelIdx = 0
    /\ rawResponse = <<>>
    /\ requests = <<>>

----------------------------------------------------------------------------

\* the caller has its answer; the next request may come
Return ==
    /\ pc \in {"done", "failed"}
    /\ fn' = "" /\ pc' = "idle"
    /\ params' = NoParams
    /\ enhancedPrompt' = ""
    /\ orderedEngines' = <<>>
    /\ idx' = 1
    /\ lastError' = ""
    /\ attempted' = <<>>
    /\ fetches' = <<>>
    /\ lastRes' = NoResponse
    /\ result' = NoResult
    /\ error' = ""
    /\ UNCHANGED <<env, clientVars, batchVars, pageVars, cacheVars>>

\* the rest of the page after its first render
NoPromptsRequest == [inFlight |-> FALSE, panels |-> <<>>]
PageInit ==
    /\ illustratorPrompts = <<>>
    /\ useIllustratorPass = FALSE
    /\ promptsRequest = NoPromptsRequest
    /\ panelCalls = <<>>
    /\ loadingProject = FALSE

\* no batch request was received yet
NoBatchResponse == [status |-> 0, results |-> <<>>, total |-> 0, successful |-> 0,
                    error |-> ""]
BatchInit ==
    /\ batchPc = "idle"
    /\ prompts = <<>>
    /\ batchSize = 2
    /\ loopI = 0
    /\ batch = <<>>
    /\ inFlight = {}
    /\ batchResults = <<>>
    /\ results = <<>>
    /\ generateCalls = <<>>
    /\ response = NoBatchResponse

Init ==
    /\ env \in SUBSET KeyNames
    /\ fn = "" /\ pc = "idle"
    /\ params = NoParams
    /\ enhancedPrompt = ""
    /\ orderedEngines = <<>>
    /\ idx = 1
    /\ lastError = ""
    /\ attempted = <<>>
    /\ fetches = <<>>
    /\ lastRes = NoResponse
    /\ result = NoResult
    /\ error = ""
    /\ characterProfiles = <<>>
    /\ clock = 0
    /\ imageCalls = <<>>
    /\ LedgerInit
    /\ ClientInit
    /\ BatchInit
    /\ PageInit

Next ==
    \/ \E engine \in EngineParams, model \in ModelParams : generateText(engine, model)
    \/ \E res \in Responses \cup {NoResponse} : generateTextTry(res)
    \/ \E engine \in EngineParams, model \in ModelParams :
            generateImage(engine, model, PlainPrompt, "", FALSE)
    \/ \E res \in Responses : generateImageTry(res)
    \/ generateVoice
    \/ \E res \in Responses : generateVoiceFetch(res)
    \/ \E engine \in EngineParams, model \in ModelParams : aiGenerateText(engine, model)
    \/ \E res \in Responses : aiGenerateTextTry(res)
    \/ \E engine \in EngineParams, model \in ModelParams :
            aiGenerateImage(engine, model, PlainPrompt)
    \/ \E res \in Responses : aiGenerateImageTry(res)
    \/ \E engine \in EngineParams, model \in ModelParams :
            legacyGenerateImage(engine, model, PlainPrompt)
    \/ \E res \in Responses : legacyGenerateImageFetch(res)
    \/ \E engine \in EngineParams, model \in ModelParams :
            postImageGenerate(engine, model, PlainPrompt)
    \/ \E res \in Responses : postImageGenerateFetch(res)
    \/ Return

Spec == Init /\ [][Next]_vars

----------------------------------------------------------------------------
(* The character consistency storage over a series of requests             *)

\* the character names and the prompts of the requests
Names == {"Aiko", "Ren"}
Prompts == {PlainPrompt, KimonoPrompt}

\* the last instant of the clock
MaxClock == 2

\* DELETE /api/ai/characters/:name
deleteCharacter(name) ==
    /\ fn = "" /\ pc = "idle"
    /\ fn' = "DELETE /api/ai/characters/:name"
    /\ params' = [NoParams EXCEPT !.characterName = name]
    /\ LET deleted == name \in DOMAIN characterProfiles
       IN  /\ characterProfiles' = DeleteProfile(characterProfiles, name)
           /\ result' = [payload |-> IF deleted THEN "Character deleted"
                                     ELSE "Character not found",
                         engine |-> "", model |-> ""]
    /\ pc' = "done"
    /\ enhancedPrompt' = ""
    /\ orderedEngines' = <<>>
    /\ error' = ""
    /\ UNCHANGED <<env, clientVars, batchVars, pageVars, idx, lastError, attempted, fetches, lastRes,
                   clock, imageCalls, creditBalances, creditResponse>>

\* time passes: Date.now() grows
Tick ==
    /\ clock < MaxClock
    /\ clock' = clock + 1
    /\ UNCHANGED <<env, clientVars, batchVars, pageVars, callVars, characterProfiles, imageCalls,
                   creditBalances, creditResponse>>

CacheInit ==
    /\ Init
    /\ env \subseteq {"OPENAI_API_KEY", "HF_API_KEY"}

CacheNext ==
    \/ \E characterName \in Names \cup {""}, isCharacterFocused \in BOOLEAN,
          prompt \in Prompts :
            generateImage("", "", prompt, characterName, isCharacterFocused)
    \/ \E res \in Responses : generateImageTry(res)
    \/ \E name \in Names : deleteCharacter(name)
    \/ Tick
    \/ Return

CacheSpec == CacheInit /\ [][CacheNext]_vars

----------------------------------------------------------------------------
(* generateImage called by concurrent requests.  The calls run on one      *)
(* thread: a call runs from its start to its first await of a provider,    *)
(* and from one provider's answer to the next await or to its end, without *)
(* any other call's code in between.                                       *)

MaxCalls == 3

\* variant: every character-focused call stores a profile of its own prompt
ProfilesAfter_overwrite(profiles, characterName, isCharacterFocused, prompt, now) ==
    IF UsesCache(characterName, isCharacterFocused)
    THEN [n \in DOMAIN profiles \cup {characterName} |->
            IF n = characterName
            THEN NewProfile(characterName, extractCharacterTraits(prompt), now)
            ELSE profiles[n]]
    ELSE profiles

\* the storage after the character block of generateImage
ProfilesAfter(profiles, characterName, isCharacterFocused, prompt, now) ==
    IF UsesCache(characterName, isCharacterFocused)
    THEN IF characterName \in DOMAIN profiles
         THEN [profiles EXCEPT
                  ![characterName] = Reinforce(profiles[characterName], prompt, now)]
         ELSE profiles @@
              (characterName :> NewProfile(characterName, extractCharacterTraits(prompt), now))
    ELSE profiles

\* enhancedPrompt after the character block
EnhancedAfter(profiles, characterName, isCharacterFocused, prompt) ==
    IF UsesCache(characterName, isCharacterFocused)
    THEN IF characterName \in DOMAIN profiles
         THEN ReinforcedPrompt(profiles[characterName], prompt)
         ELSE EstablishingPrompt(extractCharacterTraits(prompt), prompt)
    ELSE prompt.text

\* a request calls generateImage while other calls await their providers:
\* the call runs to its first await, or throws for the want of an engine
imageCallStarts(characterName, isCharacterFocused, prompt) ==
    /\ Len(imageCalls) < MaxCalls
    /\ characterProfiles' = ProfilesAfter(characterProfiles, characterName,
                                          isCharacterFocused, prompt, clock)
    /\ imageCalls' = Append(imageCalls,
            [characterName |-> characterName,
             isCharacterFocused |-> isCharacterFocused,
             prompt |-> prompt,
             enhancedPrompt |-> EnhancedAfter(characterProfiles, characterName,
                                              isCharacterFocused, prompt),
             orderedEngines |-> OrderedImageEngines("", env),
             idx |-> 1,
             pc |-> IF AvailableEngines(AI_ENGINES.image, env) = <<>>
                    THEN "failed" ELSE "trying"])
    /\ UNCHANGED <<env, callVars, clientVars, batchVars, pageVars, clock,
                   creditBalances, creditResponse>>

\* the provider a call awaits answers res: the call returns, goes on to the
\* next engine, or throws after the last one
imageCallResumes(k, res) ==
    /\ k \in DOMAIN imageCalls
    /\ imageCalls[k].pc = "trying"
    /\ LET call == imageCalls[k]
           engineKey == call.orderedEngines[call.idx]
       IN  imageCalls' =
             [imageCalls EXCEPT ![k] =
                IF ImageSucceeds(engineKey, res) THEN [call EXCEPT !.pc = "done"]
                ELSE IF call.idx < Len(call.orderedEngines)
                     THEN [call EXCEPT !.idx = call.idx + 1]
                     ELSE [call EXCEPT !.pc = "failed"]]
    /\ UNCHANGED <<env, callVars, clientVars, batchVars, pageVars, characterProfiles, clock,
                   creditBalances, creditResponse>>

\* the calls of the requests: of one character with either prompt, of
\* another character, and one that is not character-focused
CallInputs ==
    {[characterName |-> "Aiko", isCharacterFocused |-> TRUE, prompt |-> PlainPrompt],
     [characterName |-> "Aiko", isCharacterFocused |-> TRUE, prompt |-> KimonoPrompt],
     [characterName |-> "Ren", isCharacterFocused |-> TRUE, prompt |-> PlainPrompt],
     [characterName |-> "Aiko", isCharacterFocused |-> FALSE, prompt |-> KimonoPrompt]}

\* no image provider has a key, or both have
ConcurrentInit ==
    /\ Init
    /\ env \in {{}, {"OPENAI_API_KEY", "HF_API_KEY"}}

ConcurrentNext ==
    \/ \E input \in CallInputs :
          imageCallStarts(input.characterName, input.isCharacterFocused, input.prompt)
    \/ \E k \in 1..MaxCalls, res \in Responses : imageCallResumes(k, res)

ConcurrentSpec == ConcurrentInit /\ [][ConcurrentNext]_vars

----------------------------------------------------------------------------
(* routes/payments.ts: the credit ledger                                   *)

GENERATION_COSTS == [script |-> 0, image |-> 1, illustrator |-> 0, voice |-> 2]
FREE_CREDITS == 5

\* the balances the ledger is followed up to, and the counts of the requests
MaxBalance == 8
MaxCount == 3

\* GENERATION_COSTS[type] ?? 1
CostOf(type) == IF type \in DOMAIN GENERATION_COSTS THEN GENERATION_COSTS[type] ELSE 1

\* getCredits: the ledger after the call (a new user is given the free
\* credits), and the balance it returns
Opened(balances, userId) ==
    IF userId \in DOMAIN balances THEN balances ELSE balances @@ (userId :> FREE_CREDITS)
getCredits(balances, userId) == Opened(balances, userId)[userId]

\* deductCredits goes on: not (balance < amount)
Deductible(balance, amount) == balance >= amount

\* the ledger after deductCredits(userId, amount)
deductCredits(balances, userId, amount) ==
    IF Deductible(getCredits(balances, userId), amount)
    THEN [Opened(balances, userId) EXCEPT ![userId] = @ - amount]
    ELSE Opened(balances, userId)

\* GET /api/credits/balance
getCreditsBalance(userId) ==
    /\ creditBalances' = Opened(creditBalances, userId)
    /\ creditResponse' = [NoCreditResponse EXCEPT
                            !.route = "balance", !.userId = userId,
                            !.credits = getCredits(creditBalances, userId)]
    /\ UNCHANGED <<env, callVars, clientVars, batchVars, pageVars,
                   characterProfiles, clock, imageCalls>>

\* GET /api/credits/check
getCreditsCheck(userId, type) ==
    /\ creditBalances' = Opened(creditBalances, userId)
    /\ creditResponse' = [NoCreditResponse EXCEPT
                            !.route = "check", !.userId = userId, !.type = type,
                            !.cost = CostOf(type),
                            !.canAfford = getCredits(creditBalances, userId) >= CostOf(type),
                            !.credits = getCredits(creditBalances, userId)]
    /\ UNCHANGED <<env, callVars, clientVars, batchVars, pageVars,
                   characterProfiles, clock, imageCalls>>

\* POST /api/credits/deduct
postCreditsDeduct(userId, type, count) ==
    /\ getCredits(creditBalances, userId) - CostOf(type) * count <= MaxBalance
    /\ creditBalances' = deductCredits(creditBalances, userId, CostOf(type) * count)
    /\ creditResponse' =
          [NoCreditResponse EXCEPT
             !.route = "deduct", !.userId = userId, !.type = type,
             !.cost = CostOf(type) * count,
             !.success = Deductible(getCredits(creditBalances, userId), CostOf(type) * count),
             !.credits = getCredits(deductCredits(creditBalances, userId,
                                                  CostOf(type) * count), userId),
             !.deducted = IF Deductible(getCredits(creditBalances, userId),
                                        CostOf(type) * count)
                          THEN CostOf(type) * count ELSE 0]
    /\ UNCHANGED <<env, callVars, clientVars, batchVars, pageVars,
                   characterProfiles, clock, imageCalls>>

\* the users, the types and the counts of the requests; a request without
\* userId is that of anonymous
UserIds == {"anonymous", "reader"}
GenerationTypes == {"script", "image", "voice", "panel"}
Counts == (0 - MaxCount)..MaxCount

LedgerNext ==
    \/ \E userId \in UserIds : getCreditsBalance(userId)
    \/ \E userId \in UserIds, type \in GenerationTypes : getCreditsCheck(userId, type)
    \/ \E userId \in UserIds, type \in GenerationTypes, count \in Counts :
          postCreditsDeduct(userId, type, count)

\* the server has started; the keys of the providers play no part
LedgerSpecInit ==
    /\ Init
    /\ env = {}

LedgerSpec == LedgerSpecInit /\ [][LedgerNext]_vars

----------------------------------------------------------------------------
(* routes/image-generation.ts: POST /api/image/generate-batch              *)

MaxPrompts == 5
MaxBatchSize == 3

\* how far below 0 the i of the loop is followed
MaxDescent == 3

\* the prompt lists and the bodies of the requests; a list may name a prompt
\* twice
PromptLists ==
    {[k \in 1..n |-> "prompt " \o ToString(k)] : n \in 0..MaxPrompts}
    \cup {<<"prompt 1", "prompt 1", "prompt 2">>}
BatchBodies ==
    {[hasPrompts |-> TRUE, prompts |-> list, hasBatchSize |-> TRUE, batchSize |-> size] :
        list \in PromptLists, size \in 1..MaxBatchSize}
    \cup {[hasPrompts |-> TRUE, prompts |-> list, hasBatchSize |-> FALSE, batchSize |-> 0] :
            list \in PromptLists}
    \cup {[hasPrompts |-> FALSE, prompts |-> <<>>, hasBatchSize |-> FALSE, batchSize |-> 0]}

\* what one generateImage call of the route ends with: the image URL it
\* returns or the error it throws, an Error with a message or something else
GenerateOutcomes ==
    {[imageUrl |-> "data:image/png;base64,cGF5bG9hZA==", thrown |-> FALSE, message |-> ""],
     [imageUrl |-> "", thrown |-> TRUE, message |-> ColdStart],
     [imageUrl |-> "", thrown |-> TRUE, message |-> ""]}

\* variant: the end of the group is not passed to slice
SliceFromTo_toTheEnd(list, from, to) == SubSeq(list, from + 1, Len(list))

\* an index of slice as the array reads it: a negative index counts from the
\* end, and an index is kept within the array
SliceIndex(list, at) ==
    IF at < 0 THEN (IF Len(list) + at < 0 THEN 0 ELSE Len(list) + at)
    ELSE IF at > Len(list) THEN Len(list) ELSE at

\* Array.prototype.slice(from, to)
SliceFromTo(list, from, to) ==
    SubSeq(list, SliceIndex(list, from) + 1, SliceIndex(list, to))

\* what the promise of one prompt resolves to
BatchResult(prompt, outcome) ==
    IF outcome.thrown
    THEN [prompt |-> prompt, imageUrl |-> "",
          error |-> IF outcome.message # "" THEN outcome.message ELSE "Generation failed"]
    ELSE [prompt |-> prompt, imageUrl |-> outcome.imageUrl, error |-> ""]
Unsettled == [prompt |-> "", imageUrl |-> "", error |-> ""]

\* the for loop from position at on: the calls of the next group start, or
\* the response is sent
BatchFrom(list, size, at, collected, calls) ==
    IF at < Len(list)
    THEN /\ loopI' = at
         /\ batch' = SliceFromTo(list, at, at + size)
         /\ inFlight' = DOMAIN SliceFromTo(list, at, at + size)
         /\ batchResults' = [k \in DOMAIN SliceFromTo(list, at, at + size) |-> Unsettled]
         /\ generateCalls' = calls \o SliceFromTo(list, at, at + size)
         /\ batchPc' = "awaiting"
         /\ response' = NoBatchResponse
    ELSE /\ loopI' = at
         /\ batch' = <<>>
         /\ inFlight' = {}
         /\ batchResults' = <<>>
         /\ generateCalls' = calls
         /\ batchPc' = "done"
         /\ response' = [status |-> 200, results |-> collected, total |-> Len(list),
                         successful |-> Cardinality({k \in DOMAIN collected :
                                                        collected[k].imageUrl # ""}),
                         error |-> ""]

\* the route up to its first await
postGenerateBatch(body) ==
    /\ batchPc \in {"idle", "done"}
    /\ IF ~body.hasPrompts
       THEN /\ response' = [NoBatchResponse EXCEPT !.status = 400,
                                !.error = "Missing or invalid prompts array"]
            /\ batchPc' = "done"
            /\ generateCalls' = <<>>
            /\ UNCHANGED <<prompts, batchSize, loopI, batch, inFlight, batchResults, results>>
       ELSE /\ prompts' = body.prompts
            /\ batchSize' = IF body.hasBatchSize THEN body.batchSize ELSE 2
            /\ results' = <<>>
            /\ BatchFrom(body.prompts, IF body.hasBatchSize THEN body.batchSize ELSE 2,
                         0, <<>>, <<>>)
    /\ UNCHANGED <<env, callVars, cacheVars, clientVars, pageVars>>

\* one generateImage call of the group returns or throws
generateImageSettles(k, outcome) ==
    /\ batchPc = "awaiting"
    /\ k \in inFlight
    /\ inFlight' = inFlight \ {k}
    /\ batchResults' = [batchResults EXCEPT ![k] = BatchResult(batch[k], outcome)]
    /\ UNCHANGED <<batchPc, prompts, batchSize, loopI, batch, results, generateCalls,
                   response>>
    /\ UNCHANGED <<env, callVars, cacheVars, clientVars, pageVars>>

\* Promise.all resolves: the results of the group are pushed, and the route
\* waits a second when more prompts are left
batchSettled ==
    /\ batchPc = "awaiting"
    /\ inFlight = {}
    /\ results' = results \o batchResults
    /\ IF loopI + batchSize < Len(prompts)
       THEN /\ batchPc' = "delay"
            /\ UNCHANGED <<loopI, batch, inFlight, batchResults, generateCalls, response>>
       ELSE BatchFrom(prompts, batchSize, loopI + batchSize, results \o batchResults,
                      generateCalls)
    /\ UNCHANGED <<prompts, batchSize>>
    /\ UNCHANGED <<env, callVars, cacheVars, clientVars, pageVars>>

\* the timer of the delay fires: the loop goes on
delayElapsed ==
    /\ batchPc = "delay"
    /\ loopI + batchSize >= 0 - MaxDescent
    /\ BatchFrom(prompts, batchSize, loopI + batchSize, results, generateCalls)
    /\ UNCHANGED <<prompts, batchSize, results>>
    /\ UNCHANGED <<env, callVars, cacheVars, clientVars, pageVars>>

BatchSpecInit ==
    /\ Init
    /\ env = {"OPENAI_API_KEY", "HF_API_KEY"}

BatchNext ==
    \/ \E body \in BatchBodies : postGenerateBatch(body)
    \/ \E k \in 1..MaxBatchSize, outcome \in GenerateOutcomes : generateImageSettles(k, outcome)
    \/ batchSettled
    \/ delayElapsed

BatchSpec == BatchSpecInit /\ [][BatchNext]_vars

\* the bodies with any whole number as batchSize: 0 and negative ones too
AnyBatchBodies ==
    BatchBodies
    \cup {[hasPrompts |-> TRUE, prompts |-> list, hasBatchSize |-> TRUE, batchSize |-> size] :
            list \in PromptLists, size \in (0 - MaxBatchSize)..0}

AnyBatchNext ==
    \/ \E body \in AnyBatchBodies : postGenerateBatch(body)
    \/ \E k \in 1..MaxPrompts, outcome \in GenerateOutcomes : generateImageSettles(k, outcome)
    \/ batchSettled
    \/ delayElapsed

\* every generateImage call returns or throws, a resolved Promise.all is
\* resumed, and the timer of the delay fires
AnyBatchSpec ==
    /\ BatchSpecInit
    /\ [][AnyBatchNext]_vars
    /\ WF_vars(\E k \in 1..MaxPrompts, outcome \in GenerateOutcomes :
                    generateImageSettles(k, outcome))
    /\ WF_vars(batchSettled)
    /\ WF_vars(delayElapsed)

----------------------------------------------------------------------------
(* The client: pages/manga-generator.tsx                                   *)

\* the most dialogue lines of a panel of the modelled scripts
MaxLines == 3

\* panels, pages and scripts as values
Lines(n) == JArr([k \in 1..n |-> JStr(<<"line">>)])
Panel(id, dialogue) ==
    JObj(<<Member("id", JStr(<<id>>)), Member("description", JStr(<<"rooftop">>))>>
         \o (IF dialogue = JNull THEN <<>> ELSE <<Member("dialogue", dialogue)>>))
Script(title, pages) ==
    JObj(<<Member("title", JStr(title)),
           Member("pages",
                  JArr([k \in DOMAIN pages |->
                            JObj(<<Member("number", JNum(ToString(k))),
                                   Member("panels", JArr(pages[k]))>>)]))>>)

\* the scripts whose images are asked for: a panel without a dialogue list
\* and panels of 0..MaxLines lines on one page; two pages of two panels each
PageLists ==
    { << <<Panel("0-1", JNull)>>
         \o [k \in 1..(MaxLines + 1) |-> Panel("1-" \o ToString(k), Lines(k - 1))] >>,
      << <<Panel("1-1", Lines(2)), Panel("1-2", JNull)>>,
         <<Panel("2-1", JNull), Panel("2-2", Lines(1))>> >> }
Scripts == {Script(<<"Dawn">>, pages) : pages \in PageLists}

\* the scripts the chat model answers with: one panel; a title may hold a
\* triple backtick
Titles == {<<"Dawn">>, <<"a", FENCE, "b">>}
ChatScripts == {Script(title, << <<Panel("1-1", Lines(1))>> >>) : title \in Titles}

\* how a chat model hands a JSON text over
FencedJson(text) == <<FENCE, "json", NL>> \o text \o <<NL, FENCE>>
FencedPlain(text) == <<FENCE, NL>> \o text \o <<NL, FENCE>>
RawResponses ==
    UNION {{ Stringify(v),
             <<NL>> \o Stringify(v) \o <<NL>>,
             FencedJson(Stringify(v)),
             <<"Here", "you", "go", NL>> \o FencedJson(Stringify(v)) \o <<NL, "Enjoy">>,
             FencedPlain(Stringify(v)),
             <<"Here", "you", "go", NL>> \o Stringify(v),
             FencedJson(Tail(Stringify(v))) } : v \in ChatScripts}
    \cup {<<>>, <<"Sorry">>, <<QUOTE, "Sorry", QUOTE>>}

\* the answers of POST /api/openai/chat and POST /api/openai/image
ChatAnswers ==
    {[ok |-> TRUE, content |-> raw, error |-> ""] : raw \in RawResponses}
    \cup {[ok |-> FALSE, content |-> <<>>, error |-> e] :
            e \in {"", "All text engines failed. Last error: fetch failed"}}
ImageAnswers ==
    {[ok |-> TRUE, imageUrl |-> "data:image/png;base64,cGF5bG9hZA==", error |-> ""],
     [ok |-> FALSE, imageUrl |-> "", error |-> "No image returned from OpenAI."]}

Toast(title, description) == [title |-> title, description |-> description]

\* the server's answer to GET /api/openai/status arrives (the effect of the
\* first render)
checkAPIStatus(configured) ==
    /\ handler = "" /\ ~apiKeyConfigured
    /\ apiKeyConfigured' = configured
    /\ toasts' = IF configured THEN toasts
                 ELSE <<Toast("API Key Not Configured",
                              "OpenAI API key is not configured on the server")>>
    /\ UNCHANGED <<script, images, status, isGeneratingScript, isGeneratingImages,
                   generatingPanels, handler, allPanels, capturedImages, newImages,
                   panelIdx, rawResponse, requests>>
    /\ UNCHANGED <<env, callVars, cacheVars, batchVars, pageVars>>

\* handleGenerateScript up to its await
handleGenerateScript(inputText) ==
    /\ handler = ""
    /\ IF ~apiKeyConfigured
       THEN /\ toasts' = <<Toast("API Key Not Configured",
                                 "OpenAI API key is not configured on the server")>>
            /\ UNCHANGED <<isGeneratingScript, status, handler>>
       ELSE IF Trim(inputText) = ""
       THEN /\ toasts' = <<Toast("Input Required",
                                 "Please enter some text to transform into manga")>>
            /\ UNCHANGED <<isGeneratingScript, status, handler>>
       ELSE /\ isGeneratingScript' = TRUE
            /\ status' = "Generating manga script..."
            /\ handler' = "handleGenerateScript"
            /\ toasts' = <<>>
    /\ UNCHANGED <<apiKeyConfigured, script, images, isGeneratingImages,
                   generatingPanels, allPanels, capturedImages, newImages, panelIdx,
                   rawResponse, requests>>
    /\ UNCHANGED <<env, callVars, cacheVars, batchVars, pageVars>>

\* the pages and panels the success toast counts; FALSE when counting throws
Countable(json) ==
    /\ Get(json, "pages").kind = "array"
    /\ \A page \in Range(Elements(Get(json, "pages"))) : Get(page, "panels").kind = "array"

\* what generateMangaScript gives for the chat answer: the script, or the
\* message of the error thrown
ScriptOutcome(answer) ==
    IF ~answer.ok
    THEN [error |-> IF answer.error # "" THEN answer.error
                    ELSE "Failed to generate manga script",
          json |-> JNull]
    ELSE ParseScript(answer.content)

\* the try, catch and finally of handleGenerateScript after the await
ScriptGenerated(outcome) ==
    IF outcome.error # ""
    THEN /\ status' = "Script generation failed"
         /\ toasts' = <<Toast("Generation Failed", outcome.error)>>
         /\ UNCHANGED script
    ELSE /\ script' = outcome.json
         /\ IF Countable(outcome.json)
            THEN /\ status' = "Script generated successfully"
                 /\ toasts' = <<Toast("Script Generated",
                          "Created "
                          \o ToString(Len(Elements(Get(outcome.json, "pages"))))
                          \o " pages with "
                          \o ToString(Len(AllPanels(outcome.json)))
                          \o " panels")>>
            ELSE /\ status' = "Script generation failed"
                 /\ toasts' = <<Toast("Generation Failed",
                          "TypeError: Cannot read properties of undefined")>>

\* the chat answer arrives: generateMangaScript returns or throws, and
\* handleGenerateScript runs to its end
generateMangaScriptReturns(answer) ==
    /\ handler = "handleGenerateScript"
    /\ rawResponse' = IF answer.ok THEN answer.content ELSE rawResponse
    /\ ScriptGenerated(ScriptOutcome(answer))
    /\ isGeneratingScript' = FALSE
    /\ handler' = ""
    /\ UNCHANGED <<apiKeyConfigured, images, isGeneratingImages, generatingPanels,
                   allPanels, capturedImages, newImages, panelIdx, requests>>
    /\ UNCHANGED <<env, callVars, cacheVars, batchVars, pageVars>>

\* images[id] is truthy
HasImage(imgs, id) == id \in DOMAIN imgs /\ imgs[id] # ""

\* { ...imgs, [id]: url }
WithImage(imgs, id, url) ==
    [k \in DOMAIN imgs \cup {id} |-> IF k = id THEN url ELSE imgs[k]]

\* variant: the loop does not move on from the panel it has just asked for
NextPanel_samePanel(panels, captured, from) ==
    LET todo == {j \in (IF from > 1 THEN from - 1 ELSE 1)..Len(panels) :
                    ~HasImage(captured, Text(Get(panels[j], "id")))}
    IN  IF todo = {} THEN 0 ELSE Min(todo)

\* the position of the next panel the loop does not skip, 0 when there is none
NextPanel(panels, captured, from) ==
    LET todo == {j \in from..Len(panels) :
                    ~HasImage(captured, Text(Get(panels[j], "id")))}
    IN  IF todo = {} THEN 0 ELSE Min(todo)

\* variant: a failed panel empties the images collected so far
NewImagesAfter_lostOnFailure(collected, id, answer) ==
    IF answer.ok THEN WithImage(collected, id, answer.imageUrl) ELSE <<>>

\* newImages after the answer for one panel
NewImagesAfter(collected, id, answer) ==
    IF answer.ok THEN WithImage(collected, id, answer.imageUrl) ELSE collected

\* the request generatePanelImage sends for a panel (no illustrator pass)
PanelRequest(panel, styleBible) ==
    [panel |-> Text(Get(panel, "id")), prompt |-> buildImagePrompt(panel, styleBible)]

\* the for loop of handleGenerateAllImages from position from on, up to the
\* next await or through the end of the handler
RunFrom(panels, captured, collected, from, raised, lastStatus, generating, sent) ==
    LET j == NextPanel(panels, captured, from)
        count == ToString(Cardinality(DOMAIN collected))
    IN  IF j # 0
        THEN /\ panelIdx' = j
             /\ generatingPanels' = generating \cup {Text(Get(panels[j], "id"))}
             /\ requests' = Append(sent, PanelRequest(panels[j], Get(script, "style_bible")))
             /\ handler' = "handleGenerateAllImages"
             /\ isGeneratingImages' = TRUE
             /\ status' = lastStatus
             /\ toasts' = raised
        ELSE /\ panelIdx' = 0
             /\ generatingPanels' = generating
             /\ requests' = sent
             /\ handler' = ""
             /\ isGeneratingImages' = FALSE
             /\ status' = "Generated " \o count \o " panel images"
             /\ toasts' = Append(raised,
                                 Toast("Images Generated",
                                       "Successfully generated " \o count \o " panel images"))

\* handleGenerateAllImages up to its first await
handleGenerateAllImages ==
    /\ handler = ""
    /\ IF script = JNull \/ ~apiKeyConfigured
       THEN UNCHANGED <<images, status, isGeneratingImages, generatingPanels, toasts,
                        handler, allPanels, capturedImages, newImages, panelIdx, requests>>
       ELSE IF Get(script, "pages").kind # "array"
       THEN /\ status' = "Image generation failed"
            /\ isGeneratingImages' = FALSE
            /\ UNCHANGED <<images, generatingPanels, toasts, handler, allPanels,
                           capturedImages, newImages, panelIdx, requests>>
       ELSE /\ allPanels' = AllPanels(script)
            /\ capturedImages' = images
            /\ newImages' = images
            /\ UNCHANGED images
            /\ RunFrom(AllPanels(script), images, images, 1, <<>>,
                       "Generating all panel images...", generatingPanels, <<>>)
    /\ UNCHANGED <<apiKeyConfigured, script, isGeneratingScript, rawResponse>>
    /\ UNCHANGED <<env, callVars, cacheVars, batchVars, pageVars>>

\* the answer for the panel arrives: the rest of the loop body, and the loop
\* up to the next await or through the end of the handler
generatePanelImageReturns(answer) ==
    /\ handler = "handleGenerateAllImages"
    /\ LET id == Text(Get(allPanels[panelIdx], "id"))
           collected == NewImagesAfter(newImages, id, answer)
           raised == IF answer.ok THEN toasts
                     ELSE Append(toasts, Toast("Panel Generation Failed",
                                               "Failed to generate panel " \o id))
           lastStatus == IF answer.ok
                         THEN "Generated panel " \o id \o " ("
                              \o ToString(Cardinality(DOMAIN collected)) \o "/"
                              \o ToString(Len(allPanels)) \o ")"
                         ELSE status
       IN  /\ newImages' = collected
           /\ images' = IF answer.ok THEN collected ELSE images
           /\ RunFrom(allPanels, capturedImages, collected, panelIdx + 1, raised,
                      lastStatus, generatingPanels \ {id}, requests)
    /\ UNCHANGED <<apiKeyConfigured, script, isGeneratingScript, allPanels,
                   capturedImages, rawResponse>>
    /\ UNCHANGED <<env, callVars, cacheVars, batchVars, pageVars>>

\* the page after its first render; the script is asked for and parsed
ScriptInit ==
    /\ Init
    /\ env = {}

ScriptNext ==
    \/ \E configured \in BOOLEAN : checkAPIStatus(configured)
    \/ \E inputText \in {" ", "A story"} : handleGenerateScript(inputText)
    \/ \E answer \in ChatAnswers : generateMangaScriptReturns(answer)

ScriptSpec == ScriptInit /\ [][ScriptNext]_vars

\* the page after a script was generated from an answer in plain JSON; the
\* images of its panels are asked for
ScriptHeld(mangaScript) ==
    /\ env = {}
    /\ fn = "" /\ pc = "idle"
    /\ params = NoParams
    /\ enhancedPrompt = ""
    /\ orderedEngines = <<>>
    /\ idx = 1
    /\ lastError = ""
    /\ attempted = <<>>
    /\ fetches = <<>>
    /\ lastRes = NoResponse
    /\ result = NoResult
    /\ error = ""
    /\ characterProfiles = <<>>
    /\ clock = 0
    /\ imageCalls = <<>>
    /\ LedgerInit
    /\ apiKeyConfigured = TRUE
    /\ script = mangaScript
    /\ rawResponse = Stringify(script)
    /\ status = "Script generated successfully"
    /\ toasts = <<Toast("Script Generated",
                        "Created " \o ToString(Len(Elements(Get(script, "pages"))))
                        \o " pages with " \o ToString(Len(AllPanels(script)))
                        \o " panels")>>
    /\ images = <<>>
    /\ isGeneratingScript = FALSE
    /\ isGeneratingImages = FALSE
    /\ generatingPanels = {}
    /\ handler = ""
    /\ allPanels = <<>>
    /\ capturedImages = <<>>
    /\ newImages = <<>>
    /\ panelIdx = 0
    /\ requests = <<>>
    /\ BatchInit

ImagesInit ==
    /\ \E mangaScript \in Scripts : ScriptHeld(mangaScript)
    /\ PageInit

ImagesNext ==
    \/ handleGenerateAllImages
    \/ \E answer \in ImageAnswers : generatePanelImageReturns(answer)

ImagesSpec == ImagesInit /\ [][ImagesNext]_vars

----------------------------------------------------------------------------
(* The client: editing a panel (panel-card.tsx, handleEditPanel)           *)

\* { ...obj, [name]: value }
With(obj, name, value) ==
    IF \E k \in DOMAIN obj.items : obj.items[k].key = <<name>>
    THEN [obj EXCEPT !.items = [k \in DOMAIN obj.items |->
                                   IF obj.items[k].key = <<name>>
                                   THEN Member(name, value) ELSE obj.items[k]]]
    ELSE [obj EXCEPT !.items = Append(obj.items, Member(name, value))]

\* dialogue.split(/\n+/).filter(Boolean): the text is a list of lines and
\* newlines
SplitLines(text) == SelectSeq(text, LAMBDA tok : tok # NL /\ tok # "")

\* sfx.split(",").map(s => s.trim()).filter(Boolean): the text is a list of
\* effects, blanks and commas
SplitEffects(text) == SelectSeq(text, LAMBDA tok : tok # "," /\ Trim(tok) # "")

\* a list of strings as a value
Strings(list) == JArr([k \in DOMAIN list |-> JStr(<<list[k]>>)])

\* what the handlers of PanelCard pass to onEditPanel
handleDescriptionChange(panel, description) ==
    With(panel, "description", JStr(<<description>>))
handleDialogueChange(panel, dialogue) ==
    With(panel, "dialogue", Strings(SplitLines(dialogue)))
handleSfxChange(panel, sfx) == With(panel, "sfx", Strings(SplitEffects(sfx)))

\* variant: every panel is replaced by the edited one
ReplacedPanel_everyPanel(panel, updatedPanel) == updatedPanel

\* panel.id === updatedPanel.id ? updatedPanel : panel
ReplacedPanel(panel, updatedPanel) ==
    IF Get(panel, "id") = Get(updatedPanel, "id") THEN updatedPanel ELSE panel

\* updatedScript of handleEditPanel
UpdatedScript(mangaScript, updatedPanel) ==
    With(mangaScript, "pages",
         JArr([k \in DOMAIN Elements(Get(mangaScript, "pages")) |->
                 With(Elements(Get(mangaScript, "pages"))[k], "panels",
                      JArr([q \in DOMAIN Elements(Get(Elements(Get(mangaScript, "pages"))[k],
                                                     "panels")) |->
                              ReplacedPanel(
                                  Elements(Get(Elements(Get(mangaScript, "pages"))[k],
                                               "panels"))[q],
                                  updatedPanel)]))]))

handleEditPanel(updatedPanel) ==
    /\ script' = IF script = JNull \/ ~Countable(script) THEN script
                 ELSE UpdatedScript(script, updatedPanel)
    /\ UNCHANGED <<apiKeyConfigured, images, status, isGeneratingScript,
                   isGeneratingImages, generatingPanels, toasts, handler, allPanels,
                   capturedImages, newImages, panelIdx, rawResponse, requests>>
    /\ UNCHANGED <<env, callVars, cacheVars, batchVars, pageVars>>

\* the script that is edited: two panels on its first page, one on its second
EditedScript ==
    Script(<<"Dawn">>, << <<Panel("1-1", Lines(1)), Panel("1-2", JNull)>>,
                          <<Panel("2-1", Lines(2))>> >>)

\* what is typed into the fields of a panel card: descriptions on every
\* card, dialogue on the cards of the first page, effects on those of the
\* second
Descriptions == {"harbour at night"}
DialogueTexts == {<<"Wait", NL, NL, "Look">>}
SfxTexts == {<<"boom", ",", " ", ",", "crash">>}

\* the panel cards of one page of the script
PanelsOf(mangaScript, page) ==
    Range(Elements(Get(Elements(Get(mangaScript, "pages"))[page], "panels")))

\* illustrator prompts for the panels of a script, as a finished
\* handleBuildIllustratorPrompts leaves them
PromptsFor(mangaScript) ==
    [id \in {Text(Get(panel, "id")) : panel \in Range(AllPanels(mangaScript))} |->
        "ink study of " \o id]

\* the page holds the script; illustrator prompts may have been built and
\* the illustrator pass switched off again
EditInit ==
    /\ ScriptHeld(EditedScript)
    /\ illustratorPrompts \in {<<>>, PromptsFor(EditedScript)}
    /\ useIllustratorPass = FALSE
    /\ promptsRequest = NoPromptsRequest
    /\ panelCalls = <<>>
    /\ loadingProject = FALSE

EditNext ==
    \/ handleGenerateAllImages
    \/ \E answer \in ImageAnswers : generatePanelImageReturns(answer)
    \/ \E panel \in Range(AllPanels(script)), description \in Descriptions :
          handleEditPanel(handleDescriptionChange(panel, description))
    \/ \E panel \in PanelsOf(script, 1), dialogue \in DialogueTexts :
          handleEditPanel(handleDialogueChange(panel, dialogue))
    \/ \E panel \in PanelsOf(script, 2), sfx \in SfxTexts :
          handleEditPanel(handleSfxChange(panel, sfx))

EditSpec == EditInit /\ [][EditNext]_vars

----------------------------------------------------------------------------
(* The client: single panels, illustrator prompts, saved projects          *)

MaxPanelCalls == 1

\* how many handleGeneratePanelImage calls await the image of a panel
CallsFor(calls, id) == IF id \in DOMAIN calls THEN calls[id] ELSE 0
OneMore(calls, id) ==
    [k \in DOMAIN calls \cup {id} |-> IF k = id THEN CallsFor(calls, id) + 1 ELSE calls[k]]
OneLess(calls, id) ==
    [k \in {c \in DOMAIN calls : c # id \/ calls[c] > 1} |->
        IF k = id THEN calls[k] - 1 ELSE calls[k]]

\* variant: the id stays in the set
Unmarked_never(generating, id) == generating

\* the finally block: newSet.delete(panel.id)
Unmarked(generating, id) == generating \ {id}

\* handleGeneratePanelImage up to its await
handleGeneratePanelImage(panel) ==
    /\ CallsFor(panelCalls, Text(Get(panel, "id"))) < MaxPanelCalls
    /\ IF script = JNull \/ ~apiKeyConfigured
       THEN UNCHANGED <<generatingPanels, status, toasts, panelCalls>>
       ELSE /\ generatingPanels' = generatingPanels \cup {Text(Get(panel, "id"))}
            /\ status' = "Generating panel " \o Text(Get(panel, "id")) \o "..."
            /\ toasts' = <<>>
            /\ panelCalls' = OneMore(panelCalls, Text(Get(panel, "id")))
    /\ UNCHANGED <<apiKeyConfigured, script, images, isGeneratingScript,
                   isGeneratingImages, handler, allPanels, capturedImages, newImages,
                   panelIdx, rawResponse, requests>>
    /\ UNCHANGED <<illustratorPrompts, useIllustratorPass, promptsRequest, loadingProject>>
    /\ UNCHANGED <<env, callVars, cacheVars, batchVars>>

\* variant: the image is set into the images of the render that started
\* generate-all
StoredImages_fromCaptured(prev, id, url) == WithImage(capturedImages, id, url)

\* setImages(prev => ({ ...prev, [panel.id]: imageUrl }))
StoredImages(prev, id, url) == WithImage(prev, id, url)

\* the answer for a single panel arrives: the rest of handleGeneratePanelImage
singlePanelImageReturns(id, answer) ==
    /\ CallsFor(panelCalls, id) > 0
    /\ panelCalls' = OneLess(panelCalls, id)
    /\ generatingPanels' = Unmarked(generatingPanels, id)
    /\ IF answer.ok
       THEN /\ images' = StoredImages(images, id, answer.imageUrl)
            /\ status' = "Panel " \o id \o " generated successfully"
            /\ UNCHANGED toasts
       ELSE /\ toasts' = Append(toasts, Toast("Panel Generation Failed",
                                             "Failed to generate panel " \o id))
            /\ status' = "Panel generation failed"
            /\ UNCHANGED images
    /\ UNCHANGED <<apiKeyConfigured, script, isGeneratingScript, isGeneratingImages,
                   handler, allPanels, capturedImages, newImages, panelIdx, rawResponse,
                   requests>>
    /\ UNCHANGED <<illustratorPrompts, useIllustratorPass, promptsRequest, loadingProject>>
    /\ UNCHANGED <<env, callVars, cacheVars, batchVars>>

\* handleBuildIllustratorPrompts up to its await
handleBuildIllustratorPrompts ==
    /\ ~promptsRequest.inFlight
    /\ IF script = JNull \/ ~apiKeyConfigured \/ ~Countable(script)
       THEN /\ status' = IF script = JNull \/ ~apiKeyConfigured THEN status
                         ELSE "Illustrator pass failed"
            /\ toasts' = IF script = JNull \/ ~apiKeyConfigured THEN toasts
                         ELSE <<Toast("Prompt Generation Failed",
                                      "Falling back to built-in prompts")>>
            /\ UNCHANGED promptsRequest
       ELSE /\ status' = "Building illustrator prompts..."
            /\ toasts' = <<>>
            /\ promptsRequest' =
                    [inFlight |-> TRUE,
                     panels |-> [k \in DOMAIN AllPanels(script) |->
                                    Text(Get(AllPanels(script)[k], "id"))]]
    /\ UNCHANGED <<apiKeyConfigured, script, images, isGeneratingScript,
                   isGeneratingImages, generatingPanels, handler, allPanels,
                   capturedImages, newImages, panelIdx, rawResponse, requests>>
    /\ UNCHANGED <<illustratorPrompts, useIllustratorPass, panelCalls, loadingProject>>
    /\ UNCHANGED <<env, callVars, cacheVars, batchVars>>

\* what generateIllustratorPrompts gives: a prompt for each panel sent, or an
\* error
PromptAnswers(panels) ==
    {[ok |-> TRUE, prompts |-> [id \in Range(panels) |-> "ink study of " \o id]],
     [ok |-> FALSE, prompts |-> <<>>]}

\* the answer with the illustrator prompts arrives
generateIllustratorPromptsReturns(answer) ==
    /\ promptsRequest.inFlight
    /\ promptsRequest' = NoPromptsRequest
    /\ IF answer.ok
       THEN /\ illustratorPrompts' = answer.prompts
            /\ useIllustratorPass' = TRUE
            /\ status' = "Illustrator prompts ready"
            /\ toasts' = Append(toasts, Toast("Prompts Generated",
                                   "AI-refined illustrator prompts are now ready"))
       ELSE /\ status' = "Illustrator pass failed"
            /\ toasts' = Append(toasts, Toast("Prompt Generation Failed",
                                   "Falling back to built-in prompts"))
            /\ UNCHANGED <<illustratorPrompts, useIllustratorPass>>
    /\ UNCHANGED <<apiKeyConfigured, script, images, isGeneratingScript,
                   isGeneratingImages, generatingPanels, handler, allPanels,
                   capturedImages, newImages, panelIdx, rawResponse, requests>>
    /\ UNCHANGED <<panelCalls, loadingProject>>
    /\ UNCHANGED <<env, callVars, cacheVars, batchVars>>

\* handleLoadProject up to its await
handleLoadProject ==
    /\ ~loadingProject
    /\ loadingProject' = TRUE
    /\ toasts' = <<>>
    /\ UNCHANGED <<apiKeyConfigured, script, images, status, isGeneratingScript,
                   isGeneratingImages, generatingPanels, handler, allPanels,
                   capturedImages, newImages, panelIdx, rawResponse, requests>>
    /\ UNCHANGED <<illustratorPrompts, useIllustratorPass, promptsRequest, panelCalls>>
    /\ UNCHANGED <<env, callVars, cacheVars, batchVars>>

\* imageMap of handleLoadProject
ImageMap(loadedImages) ==
    [id \in {loadedImages[k].panelId : k \in DOMAIN loadedImages} |->
        loadedImages[CHOOSE k \in DOMAIN loadedImages :
                        /\ loadedImages[k].panelId = id
                        /\ \A later \in DOMAIN loadedImages :
                              loadedImages[later].panelId = id => later <= k].imageData]

\* the answer of loadProject arrives: [ok, project, images], the project
\* being [title, scriptData, hasPrompts, illustratorPrompts, useIllustratorPass]
loadProjectReturns(answer) ==
    /\ loadingProject
    /\ loadingProject' = FALSE
    /\ IF answer.ok
       THEN /\ script' = answer.project.scriptData
            /\ useIllustratorPass' = answer.project.useIllustratorPass
            /\ illustratorPrompts' = IF answer.project.hasPrompts
                                     THEN answer.project.illustratorPrompts
                                     ELSE illustratorPrompts
            /\ images' = ImageMap(answer.images)
            /\ toasts' = Append(toasts, Toast("Project Loaded",
                                   "Loaded project: " \o answer.project.title))
       ELSE /\ toasts' = Append(toasts, Toast("Load Failed",
                                   "Failed to load the selected project"))
            /\ UNCHANGED <<script, useIllustratorPass, illustratorPrompts, images>>
    /\ UNCHANGED <<apiKeyConfigured, status, isGeneratingScript, isGeneratingImages,
                   generatingPanels, handler, allPanels, capturedImages, newImages,
                   panelIdx, rawResponse, requests>>
    /\ UNCHANGED <<promptsRequest, panelCalls>>
    /\ UNCHANGED <<env, callVars, cacheVars, batchVars>>

\* the script held at first, the script a new generation answers with and
\* the script of the saved project: the same panel ids, as every script
\* numbers its panels by page and position
HeldScript == Script(<<"Dawn">>, << <<Panel("1-1", Lines(1)), Panel("1-2", JNull)>> >>)
NewScript == Script(<<"Noon">>, << <<Panel("1-1", Lines(2)), Panel("1-2", Lines(1))>> >>)
SavedScript == Script(<<"Dusk">>, << <<Panel("1-1", JNull)>> >>)

\* the answers of the chat model to a new generation, and of loadProject
NewScriptAnswers ==
    {[ok |-> TRUE, content |-> Stringify(NewScript), error |-> ""],
     [ok |-> FALSE, content |-> <<>>, error |-> ""]}
SavedProjects ==
    {[title |-> "Dusk", scriptData |-> SavedScript, hasPrompts |-> hasPrompts,
      illustratorPrompts |-> IF hasPrompts
                             THEN [id \in {"1-1"} |-> "saved study of " \o id]
                             ELSE <<>>,
      useIllustratorPass |-> hasPrompts] : hasPrompts \in BOOLEAN}
SavedImages ==
    {<<>>, <<[panelId |-> "1-1", imageData |-> "data:image/png;base64,c2F2ZWQ="]>>}
LoadAnswers ==
    {[ok |-> TRUE, project |-> project, images |-> loaded] :
        project \in SavedProjects, loaded \in SavedImages}
    \cup {[ok |-> FALSE, project |-> project, images |-> <<>>] : project \in SavedProjects}

\* the page holds a script, nothing generated for it yet
ProjectInit ==
    /\ ScriptHeld(HeldScript)
    /\ PageInit

ProjectNext ==
    \/ handleGenerateAllImages
    \/ \E answer \in ImageAnswers : generatePanelImageReturns(answer)
    \/ handleBuildIllustratorPrompts
    \/ \E answer \in PromptAnswers(promptsRequest.panels) :
          generateIllustratorPromptsReturns(answer)
    \/ \E inputText \in {"A story"} : handleGenerateScript(inputText)
    \/ \E answer \in NewScriptAnswers : generateMangaScriptReturns(answer)
    \/ handleLoadProject
    \/ \E answer \in LoadAnswers : loadProjectReturns(answer)

ProjectSpec == ProjectInit /\ [][ProjectNext]_vars

\* the loading overlay covers the whole page, the panel cards with it
showLoadingOverlay == isGeneratingScript \/ isGeneratingImages

\* the answers of the chat model to a generation from the same text: the
\* script as before, or a failure
SameScriptAnswers ==
    {[ok |-> TRUE, content |-> Stringify(HeldScript), error |-> ""],
     [ok |-> FALSE, content |-> <<>>, error |-> ""]}

\* the panel ids of the scripts of the page
PanelIds == {"1-1", "1-2"}

\* the page with a script: panels are generated one by one from their cards
\* while no overlay covers them, and all at once; a new script may be asked for
OverlapNext ==
    \/ \E panel \in Range(AllPanels(script)) :
          ~showLoadingOverlay /\ handleGeneratePanelImage(panel)
    \/ \E id \in PanelIds, answer \in ImageAnswers : singlePanelImageReturns(id, answer)
    \/ handleGenerateAllImages
    \/ \E answer \in ImageAnswers : generatePanelImageReturns(answer)
    \/ \E inputText \in {"A story"} : handleGenerateScript(inputText)
    \/ \E answer \in SameScriptAnswers : generateMangaScriptReturns(answer)

\* every call of the server returns or throws in the end
OverlapSpec ==
    /\ ProjectInit
    /\ [][OverlapNext]_vars
    /\ WF_vars(\E answer \in ImageAnswers : singlePanelImageReturns("1-1", answer))
    /\ WF_vars(\E answer \in ImageAnswers : singlePanelImageReturns("1-2", answer))
    /\ WF_vars(\E answer \in ImageAnswers : generatePanelImageReturns(answer))
    /\ WF_vars(\E answer \in SameScriptAnswers : generateMangaScriptReturns(answer))

----------------------------------------------------------------------------
(* Properties                                                              *)

Last(s) == s[Len(s)]

NoDuplicates(s) == \A i, j \in DOMAIN s : s[i] = s[j] => i = j

\* the failover dispatchers of the complete AI system
Failover == {"generateText", "generateImage"}

\* the payload a candidate's answer carries, as the caller is to receive it
Produced(f, engineKey, res) ==
    IF f = "generateText" THEN res.body.text
    ELSE "data:image/png;base64,"
         \o (IF engineKey = "huggingface" THEN Base64(res.body) ELSE res.body.text)

\* C1: Failover.  In generateText and generateImage, when the first M candidates
\* of the ordered list failed and candidate M+1 succeeds, the call returns the
\* payload candidate M+1 produced, the result's engine is candidate M+1's id, and
\* exactly the first M+1 candidates were attempted (none after M+1).
C1_Failover ==
    (fn \in Failover /\ pc = "done") =>
        LET n == Len(attempted)
        IN  /\ n >= 1
            /\ attempted = SubSeq(orderedEngines, 1, n)
            /\ result.engine = orderedEngines[n]
            /\ result.engine # "mock" =>
                   /\ result.payload = Produced(fn, orderedEngines[n], lastRes)
                   /\ Last(fetches).engine = orderedEngines[n]
                   /\ Len(fetches) = n

\* two candidates failed, the third of four succeeded and the fourth was not called
C1_Witness ==
    /\ fn = "generateImage" /\ pc = "done"
    /\ Len(orderedEngines) = 4 /\ Len(attempted) = 3
    /\ result.engine = orderedEngines[3]

\* C2: Exhaustion.  When every candidate of the ordered list fails, the call
\* fails only after each candidate was attempted exactly once, in list order;
\* no provider is called twice within one call.
C2_Exhaustion ==
    (fn \in Failover \cup {"ai.generateText", "ai.generateImage"} /\ pc # "idle") =>
        /\ NoDuplicates(attempted)
        /\ Len(attempted) <= Len(orderedEngines)
        /\ attempted = SubSeq(orderedEngines, 1, Len(attempted))
        /\ pc = "trying" => Len(attempted) = idx - 1 /\ idx <= Len(orderedEngines)
        /\ (pc = "failed" /\ orderedEngines # <<>>) =>
               /\ attempted = orderedEngines
               /\ error # ""
               /\ fn = "generateImage" => error = AllImageFailed(lastError)
               /\ fn = "generateText" => error = AllTextFailed(lastError)

\* all four image engines were attempted and failed
C2_Witness ==
    /\ fn = "generateImage" /\ pc = "failed"
    /\ Len(attempted) = 4
    /\ error = AllImageFailed(lastError)

\* the credentials of a modality's providers; the mock text generator needs none
ProviderKeys(modality) ==
    CASE modality = "text" -> {"OPENAI_API_KEY", "OPENAI_API_NIN", "OPENAI_API_SYTH",
                               "PERPLEXITY_API_KEY", "HF_API_KEY"}
      [] modality = "image" -> {"OPENAI_API_KEY", "OPENAI_API_NIN", "OPENAI_API_SYTH",
                                "HF_API_KEY"}
      [] OTHER -> {"ELEVENLABS_API_KEY"}

NoneAvailable(modality) == modality # "text" /\ ProviderKeys(modality) \cap env = {}

Modality(f) ==
    CASE f = "generateText" -> "text" [] f = "generateImage" -> "image" [] OTHER -> "voice"

NoProviderAvailable(f) ==
    CASE f = "generateText" -> error = "No text generation engines available"
      [] f = "generateImage" -> error = "No image generation engines available"
      [] OTHER -> error = "ElevenLabs API key not configured"

\* C3: for text, image and voice and every combination of credentials, a call
\* fails with NoProviderAvailable if and only if no provider of the modality is
\* available, and then no network call was made.
C3_NoProviderAvailable ==
    (fn \in {"generateText", "generateImage", "generateVoice"} /\ pc # "idle") =>
        /\ NoProviderAvailable(fn) <=> NoneAvailable(Modality(fn))
        /\ NoProviderAvailable(fn) => pc = "failed" /\ fetches = <<>> /\ attempted = <<>>
        /\ NoneAvailable(Modality(fn)) => pc = "failed"

\* an image call with no image credential failed without a request
C3_Witness ==
    /\ fn = "generateImage" /\ pc = "failed"
    /\ error = "No image generation engines available"
    /\ fetches = <<>>
    /\ "ELEVENLABS_API_KEY" \in env

\* C4: in generateText a success status with an empty or missing content field is
\* never returned as a successful result: every returned result has non-empty
\* content.
C4_NoEmptyContent ==
    (fn \in {"generateText", "ai.generateText"} /\ pc = "done") => result.payload # ""

\* the same for the complete AI system's generateText alone
C4_CompleteSystemOnly ==
    (fn = "generateText" /\ pc = "done") => result.payload # ""

\* the message of the failure of the attempt made last
LastAttemptError ==
    CASE fn = "generateText" -> TextAttemptError(Last(attempted), lastRes)
      [] fn = "generateImage" -> ImageAttemptError(Last(attempted), lastRes)
      [] fn = "ai.generateText" -> ChatError(Last(attempted), lastRes)
      [] OTHER -> AiImageError(Last(attempted), lastRes)

\* whether message part occurs in the surfaced error: the error is the message
\* itself or the dispatcher's "All ... engines failed. Last error: " followed by it
Carries(part) ==
    error \in {part, "All text engines failed. Last error: " \o part,
               "All image engines failed. Last error: " \o part}

\* C5: when every candidate fails, the error surfaced to the caller carries the
\* error message of the last candidate attempted, not that of an earlier one.
C5_LastErrorSurfaced ==
    (/\ fn \in Failover \cup {"ai.generateText"}
     /\ pc = "failed" /\ attempted # <<>>) => Carries(LastAttemptError)

\* the same for the complete AI system's dispatchers alone
C5_CompleteSystemOnly ==
    (fn \in Failover /\ pc = "failed" /\ attempted # <<>>) => Carries(LastAttemptError)

\* C6: the mock generator is in every candidate list of generateText, and with
\* it there generateText never fails: whatever the other providers answer and
\* whatever engine and model the caller names, the loop reaches the mock
\* generator at the latest, and the mock generator returns.
C6_MockNeverFails ==
    (fn = "generateText" /\ pc # "idle") =>
        /\ "mock" \in Range(orderedEngines)
        /\ pc # "failed"
        /\ pc = "trying" => "mock" \notin Range(attempted) /\ idx <= Len(orderedEngines)
        /\ "mock" \in Range(attempted) => /\ pc = "done"
                                          /\ result.engine = "mock"
                                          /\ result.payload = MockContent

\* five real engines failed and the mock generator answered, a model being named
C6_Witness ==
    /\ fn = "generateText" /\ pc = "done"
    /\ params.engine = "perplexity" /\ params.model = "gpt-4o"
    /\ Len(attempted) = 6
    /\ result.engine = "mock"

\* the mock generator is the last candidate and is attempted after all others
MockLowestPriority ==
    /\ "mock" \in Range(orderedEngines) => Last(orderedEngines) = "mock"
    /\ Len(orderedEngines) > 1 => orderedEngines[1] # "mock"
    /\ "mock" \in Range(attempted) => attempted = orderedEngines

\* C7 as stated: in every candidate order generateText builds, also when the
\* caller names a preferred engine, the mock generator is the lowest-priority
\* candidate: never first while another provider is available, and attempted
\* only after every other available provider has failed.
C7_MockAlwaysLast ==
    (fn = "generateText" /\ pc # "idle") => MockLowestPriority

\* C7 as amended: the same, unless the engine the caller names is the mock
\* generator itself.
C7_MockLastUnlessNamed ==
    (fn = "generateText" /\ pc # "idle" /\ params.engine # "mock") => MockLowestPriority

\* a caller named Perplexity; it and two more real engines failed before the mock
\* generator was reached
C7_Witness ==
    /\ fn = "generateText" /\ pc = "done"
    /\ params.engine = "perplexity"
    /\ orderedEngines[1] = "perplexity"
    /\ Len(attempted) = 4
    /\ result.engine = "mock"

\* the text registry in declaration order, restricted to the providers whose
\* credential is present (the mock generator needs none)
RegistryOrderOfAvailable ==
    LET declared == <<"openai_primary", "openai_nin", "openai_syth", "perplexity",
                      "huggingface", "mock">>
        keyOf == [openai_primary |-> "OPENAI_API_KEY", openai_nin |-> "OPENAI_API_NIN",
                  openai_syth |-> "OPENAI_API_SYTH", perplexity |-> "PERPLEXITY_API_KEY",
                  huggingface |-> "HF_API_KEY", mock |-> ""]
    IN  Filter(declared, {k \in Range(declared) : k = "mock" \/ keyOf[k] \in env})

\* C8: candidate order of generateText.  A named available provider is first,
\* followed by all other available providers in declaration order; with no
\* provider named the order is the available OpenAI engines (primary first),
\* then Perplexity, HuggingFace, then the mock generator.  Unavailable providers
\* never appear.
C8_CandidateOrder ==
    (fn = "generateText" /\ pc # "idle") =>
        LET avail == RegistryOrderOfAvailable
        IN  /\ Range(orderedEngines) = Range(avail)
            /\ Len(orderedEngines) = Len(avail)
            /\ params.engine \in Range(avail) =>
                   /\ orderedEngines[1] = params.engine
                   /\ Tail(orderedEngines) = Filter(avail, Range(avail) \ {params.engine})
            /\ params.engine = "" => orderedEngines = avail

\* HuggingFace is named and leads; OpenAI primary, Perplexity and the mock
\* generator follow in declaration order; the engines without credential are absent
C8_Witness ==
    /\ fn = "generateText" /\ pc = "trying"
    /\ params.engine = "huggingface"
    /\ orderedEngines = <<"huggingface", "openai_primary", "perplexity", "mock">>

\* an OpenAI image engine and the HuggingFace image engine are both available
BothImageKindsAvailable ==
    /\ "HF_API_KEY" \in env
    /\ IF fn = "ai.generateImage" THEN "OPENAI_API_KEY" \in env
       ELSE {"OPENAI_API_KEY", "OPENAI_API_NIN", "OPENAI_API_SYTH"} \cap env # {}

ImageDispatchers == {"generateImage", "ai.generateImage", "legacy.generateImage"}

\* C9 as stated: for image generation, when a first-party engine and HuggingFace
\* are both available, the first-party engine is attempted first unless the
\* caller names HuggingFace.
C9_FirstPartyFirst ==
    (/\ fn \in ImageDispatchers /\ pc # "idle"
     /\ BothImageKindsAvailable /\ params.engine # "huggingface") =>
        StartsWithOpenAI(orderedEngines[1])

\* C9 as amended: that holds of the complete AI system's generateImage; the
\* generateImage of routes/ai-engines.ts and of the earlier complete AI system
\* attempt HuggingFace first whenever it is available, unless the caller names an
\* available OpenAI engine.
C9_FirstPartyFirstInCompleteSystem ==
    (fn \in ImageDispatchers /\ pc # "idle" /\ BothImageKindsAvailable) =>
        IF fn = "generateImage"
        THEN params.engine # "huggingface" => StartsWithOpenAI(orderedEngines[1])
        ELSE orderedEngines[1] # "huggingface" =>
                 /\ params.engine = orderedEngines[1]
                 /\ StartsWithOpenAI(params.engine)

\* no engine named, all four image engines available: OpenAI primary was
\* attempted first and failed, HuggingFace is still to come
C9_Witness ==
    /\ fn = "generateImage" /\ pc = "trying"
    /\ params.engine = ""
    /\ Len(orderedEngines) = 4
    /\ attempted = <<"openai_primary">>
    /\ Last(orderedEngines) = "huggingface"

\* C10: for every successful generation response, the reported engine and model
\* are the provider and the model id the successful request was sent to.
C10_ReportsWhatServed ==
    (/\ fn \in Failover \cup {"POST /api/image/generate"}
     /\ pc = "done" /\ fetches # <<>> /\ result.engine # "mock") =>
        /\ result.engine = Last(fetches).engine
        /\ result.model = Last(fetches).model

\* the same for the complete AI system's dispatchers alone
C10_CompleteSystemOnly ==
    (fn \in Failover /\ pc = "done" /\ fetches # <<>> /\ result.engine # "mock") =>
        /\ result.engine = Last(fetches).engine
        /\ result.model = Last(fetches).model

----------------------------------------------------------------------------
(* C11: when generateImage has exhausted its candidates and the candidate  *)
(* attempted last answered HTTP 503, the error given to the caller is the  *)
(* warming-up outcome (wait and retry), and it is not when the last        *)
(* failure was something else.                                             *)

\* the caller is told to wait and retry
ReportsWarmingUp == error \in {AllImageFailed(WarmingUp), ColdStart}

\* an image call of the complete AI system or of the image route has failed
\* after a request
ImageExhausted ==
    /\ fn \in {"generateImage", "POST /api/image/generate"}
    /\ pc = "failed" /\ attempted # <<>>

----------------------------------------------------------------------------
(* Character consistency (checked under CacheSpec)                         *)

\* the prompt with the given text
PromptOf(text) == CHOOSE p \in Prompts : p.text = text

\* the step begins a character-focused generateImage call for the name
FocusedCall(name) ==
    /\ fn = "" /\ fn' = "generateImage"
    /\ params'.characterName = name /\ params'.isCharacterFocused

\* what can stand before and after the traits in a prompt sent to a provider
BeforeTraits == {""} \cup {"Character named " \o n \o ", " : n \in Names}
AfterTraits ==
    {". " \o p.text \o ". Consistent character design, " \o ConsistencyDirective \o "."
        : p \in Prompts}
    \cup {". " \o p.text \o ". Establish consistent character design for future reference."
        : p \in Prompts}

\* the prompt contains the trait string
ContainsTraits(s, traits) ==
    \E pre \in BeforeTraits, post \in AfterTraits : s = pre \o traits \o post

\* the prompt contains the literal consistency directive
ContainsDirective(s) ==
    \E pre \in BeforeTraits, p \in Prompts, q \in Prompts :
        s = pre \o extractCharacterTraits(p) \o ". " \o q.text
            \o ". Consistent character design, " \o ConsistencyDirective \o "."

\* every request of the generateImage call carries its enhanced prompt
SendsEnhancedPrompt ==
    fn = "generateImage" => \A i \in DOMAIN fetches : fetches[i].prompt = enhancedPrompt

C13_TraitBaseline ==
    [][\A n \in DOMAIN characterProfiles \cap DOMAIN characterProfiles' :
            /\ characterProfiles'[n].description = characterProfiles[n].description
            /\ characterProfiles'[n].visualTraits = characterProfiles[n].visualTraits
            /\ characterProfiles'[n].lastUsed # characterProfiles[n].lastUsed =>
                    FocusedCall(n) /\ characterProfiles'[n].lastUsed = clock]_vars

\* a later call for Aiko with another prompt: the traits are those of the
\* first prompt, lastUsed was refreshed
C13_Witness ==
    /\ fn = "generateImage"
    /\ params.characterName = "Aiko" /\ params.isCharacterFocused
    /\ params.prompt = PlainPrompt.text
    /\ "Aiko" \in DOMAIN characterProfiles
    /\ characterProfiles["Aiko"].visualTraits = extractCharacterTraits(KimonoPrompt)
    /\ characterProfiles["Aiko"].lastUsed = MaxClock

(* C14: a stored profile stays until delete(name); a step that removes a   *)
(* profile is the delete of exactly that name and removes nothing else.    *)
C14_NoEviction ==
    [][\A n \in DOMAIN characterProfiles :
            n \notin DOMAIN characterProfiles' =>
                /\ fn' = "DELETE /api/ai/characters/:name"
                /\ params'.characterName = n
                /\ DOMAIN characterProfiles' = DOMAIN characterProfiles \ {n}
                /\ \A m \in DOMAIN characterProfiles' :
                        characterProfiles'[m] = characterProfiles[m]]_vars

\* Aiko was deleted, Ren's profile is still there
C14_Witness ==
    /\ fn = "DELETE /api/ai/characters/:name"
    /\ params.characterName = "Aiko" /\ result.payload = "Character deleted"
    /\ "Aiko" \notin DOMAIN characterProfiles
    /\ "Ren" \in DOMAIN characterProfiles

(* C15: a generateImage call touches the storage exactly when a character  *)
(* name is given and isCharacterFocused is true; otherwise the storage is  *)
(* unchanged and the caller's prompt is sent as it is.                     *)
C15_CacheOnlyWhenFocused ==
    [][/\ SendsEnhancedPrompt'
       /\ fn = "" /\ fn' = "generateImage" =>
            IF params'.characterName # "" /\ params'.isCharacterFocused
            THEN /\ params'.characterName \in DOMAIN characterProfiles'
                 /\ characterProfiles'[params'.characterName].lastUsed = clock
                 /\ enhancedPrompt' # params'.prompt
            ELSE /\ characterProfiles' = characterProfiles
                 /\ enhancedPrompt' = params'.prompt]_vars

\* a call naming Aiko without the focus flag: Aiko's profile was not
\* refreshed and the prompt went out as given
C15_Witness ==
    /\ fn = "generateImage" /\ fetches # <<>>
    /\ params.characterName = "Aiko" /\ ~params.isCharacterFocused
    /\ fetches[1].prompt = params.prompt
    /\ "Aiko" \in DOMAIN characterProfiles
    /\ characterProfiles["Aiko"].lastUsed < clock
    /\ "Ren" \notin DOMAIN characterProfiles

----------------------------------------------------------------------------
(* Properties of the script parser (lib/manga-api-server.ts)               *)

\* the chat call itself threw: the toast shows the call's error
CallThrew ==
    \E a \in ChatAnswers :
        ~a.ok /\ toasts' = <<Toast("Generation Failed", ScriptOutcome(a).error)>>

\* the step in which generateMangaScript gets raw as data.content
Returned(raw) ==
    /\ handler = "handleGenerateScript" /\ handler' = ""
    /\ rawResponse' = raw
    /\ ~CallThrew

\* the text holds an opening and a closing triple backtick
ContainsFencedBlock(raw) ==
    \E i, j \in DOMAIN raw : i < j /\ raw[i] = FENCE /\ raw[j] = FENCE

\* the text holds a triple backtick
HoldsFence(text) == \E i \in DOMAIN text : text[i] = FENCE

\* the handler reports the error thrown and leaves the script alone
Reports(message) ==
    /\ toasts' = <<Toast("Generation Failed", message)>>
    /\ status' = "Script generation failed"
    /\ UNCHANGED script

RoundTripDirect(v) == Returned(Stringify(v)) => script' = v
RoundTripFenced(v) == Returned(FencedJson(Stringify(v))) => script' = v
NonJsonFails(raw) ==
    (JSONparse(raw).thrown /\ ~ContainsFencedBlock(raw) /\ Returned(raw))
        => Reports(ScriptParseError)

\* C16: a valid JSON script text parses to the script it was written from;
\* the same text inside a fenced json block parses to the same script; a
\* text that is neither JSON nor holds a fenced block fails with the parse
\* error
C16_ScriptParseRoundTrip ==
    [][/\ \A v \in ChatScripts : RoundTripDirect(v) /\ RoundTripFenced(v)
       /\ \A raw \in RawResponses : NonJsonFails(raw)]_vars

\* what of C16 the code does: the fenced text parses to the same script when
\* no string of the script holds a triple backtick
C16_RoundTripWithoutInnerFence ==
    [][/\ \A v \in ChatScripts :
            /\ RoundTripDirect(v)
            /\ ~HoldsFence(Stringify(v)) => RoundTripFenced(v)
       /\ \A raw \in RawResponses : NonJsonFails(raw)]_vars

\* a fenced script whose title holds a triple backtick was answered and the
\* handler reported a syntax error
C16_Witness ==
    /\ handler = ""
    /\ \E v \in ChatScripts :
        /\ rawResponse = FencedJson(Stringify(v))
        /\ HoldsFence(Stringify(v))
    /\ toasts = <<Toast("Generation Failed", SyntaxError)>>

\* the scripts none of whose strings holds a triple backtick
PlainScripts == {v \in ChatScripts : ~HoldsFence(Stringify(v))}

\* raw does not parse as it stands, and the script comes out of its fence
SalvagedTo(raw, v) == (JSONparse(raw).thrown /\ Returned(raw)) => script' = v

\* C17: when the raw response does not parse as it stands, a JSON script in a
\* triple-backtick fence is accepted whether the fence is tagged json or
\* carries no tag, and the script is the value of the fence's inner text
C17_AcceptsTaggedOrUntaggedFence ==
    [][\A v \in PlainScripts :
            /\ SalvagedTo(FencedJson(Stringify(v)), v)
            /\ SalvagedTo(FencedPlain(Stringify(v)), v)]_vars

\* what of C17 the code does: the fence tagged json is accepted, with or
\* without text around it
C17_AcceptsTaggedFence ==
    [][\A v \in PlainScripts :
            /\ SalvagedTo(FencedJson(Stringify(v)), v)
            /\ SalvagedTo(<<"Here", "you", "go", NL>> \o FencedJson(Stringify(v))
                              \o <<NL, "Enjoy">>, v)]_vars

\* a script in an untagged fence was answered and the handler reported that
\* the response could not be parsed
C17_Witness ==
    /\ handler = ""
    /\ \E v \in PlainScripts : rawResponse = FencedPlain(Stringify(v))
    /\ toasts = <<Toast("Generation Failed", ScriptParseError)>>

----------------------------------------------------------------------------
(* Properties of the image prompts and of generate-all                     *)

TopAndSideHint == "Leave negative space along top and side for speech bubbles."
TopHint == "Leave negative space along top for speech bubbles."
LetteringHint == "Leave generous negative space for possible lettering."
Hints == {TopAndSideHint, TopHint, LetteringHint}

\* the panel of the script a request was sent for
PanelOf(request) ==
    CHOOSE panel \in Range(AllPanels(script)) : Text(Get(panel, "id")) = request.panel

\* the dialogue lines of a panel as the script gives them; none when the
\* panel has no dialogue list
HasDialogueList(panel) ==
    \E k \in DOMAIN panel.items : panel.items[k].key = <<"dialogue">>
LineCount(panel) ==
    IF HasDialogueList(panel) THEN Len(Elements(Get(panel, "dialogue"))) ELSE 0

\* the hints among the lines of a prompt, one entry for each occurrence
HintsIn(prompt) == {k \in DOMAIN prompt : prompt[k] \in Hints}

\* C18: the prompt built for a panel holds exactly one of the three hints:
\* the top-and-side hint for more than one dialogue line, the top hint for
\* exactly one, the lettering hint for none or for an absent dialogue list
C18_HintSelection ==
    \A i \in DOMAIN requests :
        LET prompt == requests[i].prompt
            n == LineCount(PanelOf(requests[i]))
        IN  /\ Cardinality(HintsIn(prompt)) = 1
            /\ \A k \in HintsIn(prompt) :
                  prompt[k] = IF n > 1 THEN TopAndSideHint
                              ELSE IF n = 1 THEN TopHint
                              ELSE LetteringHint

\* prompts were built for a panel without a dialogue list and for panels of
\* no, one, two and more than two lines
C18_Witness ==
    /\ \E i \in DOMAIN requests : ~HasDialogueList(PanelOf(requests[i]))
    /\ \A n \in 0..MaxLines :
          \E i \in DOMAIN requests :
              /\ HasDialogueList(PanelOf(requests[i]))
              /\ LineCount(PanelOf(requests[i])) = n

\* the id of the k-th panel of the run
PanelId(k) == Text(Get(allPanels[k], "id"))

\* the panels that had no image when the run began, by position
Pending == {k \in DOMAIN allPanels : ~HasImage(capturedImages, PanelId(k))}

\* the toast that reports the failure of one panel
FailureToast(id) == Toast("Panel Generation Failed", "Failed to generate panel " \o id)

\* the answer for the panel in hand arrives, with or without an image
Answered == handler = "handleGenerateAllImages"
AnswerFailed == Answered /\ ~HasImage(images', PanelId(panelIdx))

\* the run goes on with the next pending panel, or ends in the ordinary way
\* when none is left
RunGoesOn(raised) ==
    IF \E k \in Pending : k > panelIdx
    THEN /\ handler' = "handleGenerateAllImages"
         /\ panelIdx' \in Pending /\ panelIdx' > panelIdx
         /\ \A k \in Pending : ~(panelIdx < k /\ k < panelIdx')
         /\ requests' = Append(requests,
                               PanelRequest(allPanels[panelIdx'], Get(script, "style_bible")))
         /\ toasts' = raised
    ELSE /\ handler' = ""
         /\ requests' = requests
         /\ status' # "Image generation failed"
         /\ Len(toasts') = Len(raised) + 1
         /\ SubSeq(toasts', 1, Len(raised)) = raised
         /\ toasts'[Len(toasts')].title = "Images Generated"

\* every pending panel was asked for once, in the order of the script
AllPendingAttempted(sent) ==
    /\ Len(sent) = Cardinality(Pending)
    /\ \A k \in Pending : sent[Cardinality({m \in Pending : m <= k})].panel = PanelId(k)

\* C20: a failed panel does not end generate-all: the run goes on to every
\* panel that still lacks an image, the failure is reported for the failed
\* panel only, and the images of the other panels stay in the image map
C20_PartialFailure ==
    [][Answered =>
        /\ IF AnswerFailed
           THEN /\ images' = images
                /\ RunGoesOn(Append(toasts, FailureToast(PanelId(panelIdx))))
           ELSE /\ DOMAIN images' = DOMAIN images \cup {PanelId(panelIdx)}
                /\ \A id \in DOMAIN images : images'[id] = images[id]
                /\ RunGoesOn(toasts)
        /\ handler' = "" =>
             /\ AllPendingAttempted(requests')
             /\ \A k \in DOMAIN allPanels :
                    FailureToast(PanelId(k)) \in Range(toasts')
                        <=> (k \in Pending /\ ~HasImage(images', PanelId(k)))
             /\ \A id \in DOMAIN capturedImages : images'[id] = capturedImages[id]]_vars

\* a run ended in which a panel failed between two panels that got their
\* images, and all three images asked for were lacking at the start
C20_Witness ==
    /\ handler = "" /\ requests # <<>>
    /\ \E h, k, m \in Pending :
          /\ h < k /\ k < m
          /\ HasImage(images, PanelId(h))
          /\ ~HasImage(images, PanelId(k))
          /\ FailureToast(PanelId(k)) \in Range(toasts)
          /\ HasImage(images, PanelId(m))

----------------------------------------------------------------------------
(* Properties of POST /api/image/generate-batch                            *)

\* how often a prompt occurs in a list
Occurrences(list, prompt) == Cardinality({k \in DOMAIN list : list[k] = prompt})

\* C19: for a group size of at least 1, at most batchSize generation calls
\* are in flight at any time; a group starts only when no call of an earlier
\* group is in flight; when the response is sent, every prompt was attempted
\* exactly once, whatever failed, and the results are as many as the prompts,
\* result i being that of prompt i
C19_BatchThrottling ==
    [][batchSize >= 1 =>
        /\ Cardinality(inFlight) <= batchSize
        /\ Len(generateCalls') > Len(generateCalls) /\ generateCalls # <<>>
              => (inFlight = {} /\ Len(results) = Len(generateCalls))
        /\ \A prompt \in Range(generateCalls') :
              Occurrences(generateCalls', prompt) <= Occurrences(prompts', prompt)
        /\ (batchPc' = "done" /\ response'.status = 200) =>
              /\ \A prompt \in Range(prompts') :
                    Occurrences(generateCalls', prompt) = Occurrences(prompts', prompt)
              /\ Len(response'.results) = Len(prompts')
              /\ \A k \in DOMAIN prompts' : response'.results[k].prompt = prompts'[k]]_vars

\* the largest prompt list was answered in groups of two; the first prompt
\* failed and every other one, the last group's included, got its image
C19_Witness ==
    /\ batchPc = "done" /\ response.status = 200
    /\ Len(prompts) = MaxPrompts /\ batchSize = 2
    /\ response.results[1].error # ""
    /\ response.results[Len(prompts)].imageUrl # ""
    /\ response.successful = Len(prompts) - 1

----------------------------------------------------------------------------
(* Properties of the order of a generate-all run                           *)

\* where the script holds the panel of an id: <<page, panel within the page>>
PagePos(id) ==
    CHOOSE pos \in (1..Len(AllPanels(script))) \X (1..Len(AllPanels(script))) :
        /\ pos[1] \in DOMAIN Elements(Get(script, "pages"))
        /\ pos[2] \in DOMAIN Elements(Get(Elements(Get(script, "pages"))[pos[1]], "panels"))
        /\ Text(Get(Elements(Get(Elements(Get(script, "pages"))[pos[1]], "panels"))[pos[2]],
                    "id")) = id

\* one place comes before another in page order and, within a page, in panel
\* order
Before(pos, other) ==
    pos[1] < other[1] \/ (pos[1] = other[1] /\ pos[2] < other[2])

\* C21: a generate-all run has at most one image request in flight, the one
\* sent last; its requests are sent in page order and, within a page, in
\* panel order, a request being sent only once the one before it was answered
C21_OneAtATimeInOrder ==
    /\ Cardinality(generatingPanels) <= 1
    /\ handler = "handleGenerateAllImages"
          => generatingPanels = {requests[Len(requests)].panel}
    /\ handler = "" => generatingPanels = {}
    /\ \A i, j \in DOMAIN requests :
          i < j => Before(PagePos(requests[i].panel), PagePos(requests[j].panel))

\* a run of a script of two pages has asked for both panels of the first
\* page and waits for the first panel of the second page
C21_Witness ==
    /\ handler = "handleGenerateAllImages"
    /\ Len(requests) = 3
    /\ PagePos(requests[1].panel) = <<1, 1>>
    /\ PagePos(requests[2].panel) = <<1, 2>>
    /\ PagePos(requests[3].panel) = <<2, 1>>

----------------------------------------------------------------------------
(* Properties of editing a panel                                           *)

\* the pages of a script
PagesOf(mangaScript) == Elements(Get(mangaScript, "pages"))

\* the members of an object other than the named one
Others(obj, name) == SelectSeq(obj.items, LAMBDA member : member.key # <<name>>)

\* the places where two scripts of the same shape hold different panels
ChangedPanels(before, after) ==
    {k \in DOMAIN AllPanels(before) : AllPanels(after)[k] # AllPanels(before)[k]}

\* C22: an edit gives a script in which exactly the panel of the edited id
\* is replaced, every other panel, every page and their order being as
\* before; the value held before is untouched (a generate-all run in flight
\* keeps the panels it took), and the image map and the illustrator-prompt
\* map stay as they were
C22_EditReplacesOnePanel ==
    [][script' # script =>
        /\ Others(script', "pages") = Others(script, "pages")
        /\ Len(PagesOf(script')) = Len(PagesOf(script))
        /\ \A k \in DOMAIN PagesOf(script) :
              /\ Others(PagesOf(script')[k], "panels") = Others(PagesOf(script)[k], "panels")
              /\ Len(Elements(Get(PagesOf(script')[k], "panels")))
                    = Len(Elements(Get(PagesOf(script)[k], "panels")))
        /\ Cardinality(ChangedPanels(script, script')) = 1
        /\ \A k \in ChangedPanels(script, script') :
              Get(AllPanels(script')[k], "id") = Get(AllPanels(script)[k], "id")
        /\ allPanels' = allPanels
        /\ images' = images
        /\ illustratorPrompts' = illustratorPrompts]_vars

\* a panel was edited after a generate-all run had taken the earlier panels,
\* the image map and the illustrator-prompt map holding entries
C22_Witness ==
    /\ allPanels # <<>>
    /\ Cardinality({k \in DOMAIN allPanels : AllPanels(script)[k] # allPanels[k]}) = 1
    /\ images # <<>>
    /\ illustratorPrompts # <<>>

\* the entries of a side-table (a map keyed by panel id) that were held
\* before a step and are still held, with the same value, after it
Surviving(before, after) ==
    {id \in DOMAIN before \cap DOMAIN after : after[id] = before[id]}

\* C23: a step that replaces the script (the answer of a successful
\* generation, or of loading a saved project) leaves in the image map and in
\* the illustrator-prompt map no entry that was held for the script before
C23_ReplacedScriptClearsSideTables ==
    [][script' # script =>
        /\ Surviving(images, images') = {}
        /\ Surviving(illustratorPrompts, illustratorPrompts') = {}]_vars

\* the shapes of types/manga.ts, of a value read from JSON
HasMembers(obj, names) ==
    /\ obj.kind = "object"
    /\ \A name \in names : \E k \in DOMAIN obj.items : obj.items[k].key = <<name>>

IsListOf(v, kind) ==
    /\ v.kind = "array"
    /\ \A k \in DOMAIN v.items : v.items[k].value.kind = kind

IsPanel(v) ==
    /\ HasMembers(v, {"id", "description", "dialogue", "sfx", "notes"})
    /\ Get(v, "id").kind = "string"
    /\ Get(v, "description").kind = "string"
    /\ IsListOf(Get(v, "dialogue"), "string")
    /\ IsListOf(Get(v, "sfx"), "string")
    /\ Get(v, "notes").kind = "string"

IsPage(v) ==
    /\ HasMembers(v, {"number", "panels"})
    /\ Get(v, "number").kind = "number"
    /\ Get(v, "panels").kind = "array"
    /\ \A k \in DOMAIN Get(v, "panels").items : IsPanel(Get(v, "panels").items[k].value)

IsMangaScript(v) ==
    /\ HasMembers(v, {"title", "style_bible", "pages"})
    /\ Get(v, "title").kind = "string"
    /\ Get(v, "style_bible").kind = "object"
    /\ Get(v, "pages").kind = "array"
    /\ \A k \in DOMAIN Get(v, "pages").items : IsPage(Get(v, "pages").items[k].value)
    /\ NoDuplicates([k \in DOMAIN AllPanels(v) |-> Get(AllPanels(v)[k], "id")])

\* C24: the content the mock generator returns is the text of a script of
\* the expected shape: title, style_bible and pages; every page with number
\* and panels; every panel with id, description, dialogue (a list), sfx (a
\* list) and notes, the panel ids being unique
C24_MockScriptWellFormed ==
    (fn = "generateText" /\ pc = "done" /\ result.engine = "mock") =>
        /\ result.payload = MockContent
        /\ ~JSONparse(Stringify(mockScript)).thrown
        /\ IsMangaScript(JSONparse(Stringify(mockScript)).value)

\* C24, what the content is: the text of an object with a title and pages,
\* one page of two panels, which reads back as the object written
C24_MockScriptParses ==
    (fn = "generateText" /\ pc = "done" /\ result.engine = "mock") =>
        /\ result.payload = MockContent
        /\ JSONparse(Stringify(mockScript)) = [thrown |-> FALSE, value |-> mockScript]
        /\ HasMembers(mockScript, {"title", "pages"})
        /\ Len(AllPanels(mockScript)) = 2

\* C26: a step by which a generateImage call fails, at once for the want of
\* an available engine or after the last engine failed, leaves the character
\* consistency storage as it was: the failing call created no profile
C26_FailedCallLeavesCache ==
    [][(fn' = "generateImage" /\ pc' = "failed" /\ pc # "failed") =>
            characterProfiles' = characterProfiles]_vars

\* the calls, of those started, that name the character and are
\* character-focused
FocusedCalls(name) ==
    {k \in DOMAIN imageCalls :
        /\ imageCalls[k].characterName = name
        /\ UsesCache(imageCalls[k].characterName, imageCalls[k].isCharacterFocused)}

\* the call took the branch that creates the profile
Established(call) ==
    call.enhancedPrompt
        = EstablishingPrompt(extractCharacterTraits(call.prompt), call.prompt)

\* C25: of the character-focused calls that name one character, however
\* they interleave at their awaits, exactly one established the profile (the
\* one that started first), every other call was given the stored profile,
\* and the stored traits are those of the establishing call's prompt
C25_OneCallEstablishes ==
    \A name \in Names :
        FocusedCalls(name) # {} =>
            LET first == Min(FocusedCalls(name))
            IN  /\ {k \in FocusedCalls(name) : Established(imageCalls[k])} = {first}
                /\ name \in DOMAIN characterProfiles
                /\ characterProfiles[name].visualTraits
                      = extractCharacterTraits(imageCalls[first].prompt)
                /\ \A k \in FocusedCalls(name) \ {first} :
                      imageCalls[k].enhancedPrompt
                        = ReinforcedPrompt(characterProfiles[name], imageCalls[k].prompt)

\* three character-focused calls of one character await their providers at
\* once, the second with another prompt than the first
C25_Witness ==
    /\ Len(imageCalls) = 3
    /\ FocusedCalls("Aiko") = {1, 2, 3}
    /\ \A k \in 1..3 : imageCalls[k].pc = "trying"
    /\ imageCalls[1].prompt # imageCalls[2].prompt
    /\ imageCalls[2].idx > 1

\* the i of the loop is about to pass the depth to which it is followed
BelowDescent == batchPc = "delay" /\ loopI + batchSize < 0 - MaxDescent

\* C27: whatever the prompts and whatever whole number batchSize is, 0 and
\* negative numbers included, a request whose generation calls all return is
\* answered: the loop over the groups ends (a loop whose i keeps falling
\* is followed to the depth MaxDescent only, and is not counted here)
C27_BatchTerminates ==
    (batchPc \in {"awaiting", "delay"}) ~> (batchPc = "done" \/ BelowDescent)

\* C27 for a batchSize of at least 1: the request is answered
C27_TerminatesForPositiveSize ==
    (batchPc \in {"awaiting", "delay"} /\ batchSize >= 1) ~> (batchPc = "done")

\* C28: no step removes an image from the image map: what a completed
\* single-panel generation stored is still held whatever a generate-all run
\* that overlaps it does
C28_NoLostImage ==
    [][\A id \in DOMAIN images : id \in DOMAIN images']_vars

\* C30: when every call of the server returns in the end, a panel id put into
\* generatingPanels is removed in the end, isGeneratingScript and
\* isGeneratingImages become false again, whether the generation succeeded or
\* failed, and at the end of a generate-all run no panel the run asked an
\* image for is marked
C30_ProgressStateClears ==
    /\ \A id \in PanelIds : (id \in generatingPanels) ~> (id \notin generatingPanels)
    /\ isGeneratingScript ~> ~isGeneratingScript
    /\ isGeneratingImages ~> ~isGeneratingImages
    /\ [][(handler = "handleGenerateAllImages" /\ handler' = "") =>
            \A k \in DOMAIN requests' : requests'[k].panel \notin generatingPanels']_vars

\* a generate-all run over both panels has ended, the image of one panel
\* having failed, while a single-panel generation begun before it is still
\* awaited: nothing is marked and the flags are down
C30_Witness ==
    /\ handler = "" /\ Len(requests) = 2
    /\ DOMAIN images = {"1-2"}
    /\ panelCalls # <<>>
    /\ generatingPanels = {}
    /\ ~isGeneratingImages /\ ~isGeneratingScript

\* the balance of the user the request named, as getCredits gives it
BalanceIn(balances) == getCredits(balances, creditResponse'.userId)

\* C29: no balance is ever negative; a deduct request leaves the user's
\* balance no higher than it was, and either subtracts exactly its cost and
\* reports success, the balance being at least the cost, or leaves the
\* balance as it was and reports failure
C29_CreditLedger ==
    [][/\ \A userId \in DOMAIN creditBalances' : creditBalances'[userId] >= 0
       /\ creditResponse'.route = "deduct" =>
            /\ BalanceIn(creditBalances') <= BalanceIn(creditBalances)
            /\ IF BalanceIn(creditBalances) >= creditResponse'.cost
               THEN /\ BalanceIn(creditBalances')
                        = BalanceIn(creditBalances) - creditResponse'.cost
                    /\ creditResponse'.success
               ELSE /\ BalanceIn(creditBalances') = BalanceIn(creditBalances)
                    /\ ~creditResponse'.success]_vars

\* C29 for requests whose count is not negative
C29_LedgerForCountsFromZero ==
    [][/\ \A userId \in DOMAIN creditBalances' : creditBalances'[userId] >= 0
       /\ (creditResponse'.route = "deduct" /\ creditResponse'.cost >= 0) =>
            /\ BalanceIn(creditBalances') <= BalanceIn(creditBalances)
            /\ IF BalanceIn(creditBalances) >= creditResponse'.cost
               THEN /\ BalanceIn(creditBalances')
                        = BalanceIn(creditBalances) - creditResponse'.cost
                    /\ creditResponse'.success
               ELSE /\ BalanceIn(creditBalances') = BalanceIn(creditBalances)
                    /\ ~creditResponse'.success]_vars

====
